---- MODULE Spec2Model ----
(***************************************************************************)
(* Banking ETL: the per-record pipeline validate -> clean -> transform     *)
(* (src/etl/validator.py, src/etl/cleaner.py, src/etl/transformer.py) and  *)
(* the driver loop of src/example.py.                                      *)
(*                                                                         *)
(* Python values are records [t, k, s, n, e]:                              *)
(*   None          t = "None"                                              *)
(*   str           t = "str",   s = the characters (1-character strings)   *)
(*   bool          t = "bool",  n = 0 / 1                                  *)
(*   int           t = "int",   the value n * 10^e (e > 0 only for ints    *)
(*                              beyond the machine range)                  *)
(*   float         t = "float", k = "fin" | "nan" | "inf", n = sign,       *)
(*                 s = significant decimal digits (no leading or trailing  *)
(*                 zero), e = decimal point position: the value is         *)
(*                 n * 0.s * 10^e.  Decimal literals of at most 15         *)
(*                 significant digits round-trip through a binary double,  *)
(*                 so the decimal form is exact for them.                  *)
(*   datetime.date t = "date",  n = year*10000 + month*100 + day           *)
(* A dict is a function from field names to such values.                   *)
(***************************************************************************)
EXTENDS Integers, Sequences, FiniteSets, TLC

---------------------------------------------------------------------------
(* Python values *)

None == [t |-> "None", k |-> "", s |-> <<>>, n |-> 0, e |-> 0]

Str(chars) == [t |-> "str", k |-> "", s |-> chars, n |-> 0, e |-> 0]

Bool(b) == [t |-> "bool", k |-> "", s |-> <<>>, n |-> IF b THEN 1 ELSE 0, e |-> 0]

IntV(m, x) == [t |-> "int", k |-> "", s |-> <<>>, n |-> m, e |-> x]

Fin(sign, digits, point) == [t |-> "float", k |-> "fin", s |-> digits, n |-> sign, e |-> point]

NaN == [t |-> "float", k |-> "nan", s |-> <<>>, n |-> 0, e |-> 0]

Inf(sign) == [t |-> "float", k |-> "inf", s |-> <<>>, n |-> sign, e |-> 0]

DateV(y, m, d) == [t |-> "date", k |-> "", s |-> <<>>, n |-> y * 10000 + m * 100 + d, e |-> 0]

IsStr(v) == v.t = "str"

\* Python truthiness (bool(v)): None, "", 0, 0.0 and False are falsy.
Truthy(v) ==
  CASE v.t = "None" -> FALSE
    [] v.t = "str" -> v.s # <<>>
    [] v.t = "bool" -> v.n = 1
    [] v.t = "int" -> v.n # 0
    [] v.t = "float" -> ~(v.k = "fin" /\ v.n = 0)
    [] OTHER -> TRUE

---------------------------------------------------------------------------
(* Characters and str methods *)

Digits == <<"0", "1", "2", "3", "4", "5", "6", "7", "8", "9">>

LowerLetters == <<"a", "b", "c", "d", "e", "f", "g", "h", "i", "j", "k", "l", "m",
                  "n", "o", "p", "q", "r", "s", "t", "u", "v", "w", "x", "y", "z">>

UpperLetters == <<"A", "B", "C", "D", "E", "F", "G", "H", "I", "J", "K", "L", "M",
                  "N", "O", "P", "Q", "R", "S", "T", "U", "V", "W", "X", "Y", "Z">>

Whitespace == {" ", "\t", "\n", "\r"}

IsDigit(c) == \E i \in 1..10 : Digits[i] = c

DigitVal(c) == (CHOOSE i \in 1..10 : Digits[i] = c) - 1

DigitChar(d) == Digits[d + 1]

UpperChar(c) ==
  IF \E i \in 1..26 : LowerLetters[i] = c
  THEN UpperLetters[CHOOSE i \in 1..26 : LowerLetters[i] = c]
  ELSE c

LowerChar(c) ==
  IF \E i \in 1..26 : UpperLetters[i] = c
  THEN LowerLetters[CHOOSE i \in 1..26 : UpperLetters[i] = c]
  ELSE c

\* str.upper() / str.lower()
Upper(s) == [i \in 1..Len(s) |-> UpperChar(s[i])]

Lower(s) == [i \in 1..Len(s) |-> LowerChar(s[i])]

\* str.strip(): drops leading and trailing whitespace
RECURSIVE LStrip(_)
LStrip(s) == IF s # <<>> /\ Head(s) \in Whitespace THEN LStrip(Tail(s)) ELSE s

RECURSIVE RStrip(_)
RStrip(s) ==
  IF s # <<>> /\ s[Len(s)] \in Whitespace THEN RStrip(SubSeq(s, 1, Len(s) - 1)) ELSE s

Strip(s) == RStrip(LStrip(s))

AllDigits(s) == \A i \in 1..Len(s) : IsDigit(s[i])

\* the number a (short) digit string denotes
RECURSIVE DigitsToNat(_)
DigitsToNat(s) ==
  IF s = <<>> THEN 0 ELSE 10 * DigitsToNat(SubSeq(s, 1, Len(s) - 1)) + DigitVal(s[Len(s)])

\* the decimal digits of a natural number, without leading zeros ("" for 0)
RECURSIVE NatToDigits(_)
NatToDigits(m) == IF m = 0 THEN <<>> ELSE Append(NatToDigits(m \div 10), DigitChar(m % 10))

\* decimal text of a natural number, left-padded with zeros to the given width
ZeroPad(s, width) == [i \in 1..(width - Len(s)) |-> "0"] \o s

NatStr(m) == IF m = 0 THEN <<"0">> ELSE NatToDigits(m)

\* a run of c zeros
Zeros(c) == [i \in 1..c |-> "0"]

RECURSIVE StripLeadingZeros(_)
StripLeadingZeros(s) ==
  IF s # <<>> /\ Head(s) = "0" THEN StripLeadingZeros(Tail(s)) ELSE s

RECURSIVE StripTrailingZeros(_)
StripTrailingZeros(s) ==
  IF s # <<>> /\ s[Len(s)] = "0" THEN StripTrailingZeros(SubSeq(s, 1, Len(s) - 1)) ELSE s

---------------------------------------------------------------------------
(* float(): src/etl/validator.py:127,213  src/etl/cleaner.py:96            *)
(*          src/etl/transformer.py:46,66                                   *)

\* a > b for two digit strings read as fractions 0.a and 0.b
RECURSIVE LexGt(_, _)
LexGt(a, b) ==
  IF a = <<>> THEN FALSE
  ELSE IF b = <<>> THEN \E i \in 1..Len(a) : a[i] # "0"
  ELSE IF Head(a) # Head(b) THEN DigitVal(Head(a)) > DigitVal(Head(b))
  ELSE LexGt(Tail(a), Tail(b))

\* the largest finite double, 1.7976931348623157e308
DblMaxDigits == <<"1", "7", "9", "7", "6", "9", "3", "1", "3", "4", "8", "6", "2", "3", "1", "5", "7">>

DblMaxPoint == 309

DblMinPoint == -323

\* a positive magnitude 0.digits * 10^point is beyond the range of a double
Overflows(digits, point) ==
  point > DblMaxPoint \/ (point = DblMaxPoint /\ LexGt(digits, DblMaxDigits))

\* the finite float sign * 0.digits * 10^point, in normal form
RECURSIVE MkFin(_, _, _)
MkFin(sign, digits, point) ==
  IF digits = <<>> THEN Fin(0, <<>>, 0)
  ELSE IF Head(digits) = "0" THEN MkFin(sign, Tail(digits), point - 1)
  ELSE IF digits[Len(digits)] = "0" THEN MkFin(sign, StripTrailingZeros(digits), point)
  ELSE IF point < DblMinPoint THEN Fin(0, <<>>, 0)
  ELSE Fin(sign, digits, point)

\* index of the first occurrence of one of the characters, 0 if there is none
FirstIndex(s, chars) ==
  IF \E i \in 1..Len(s) : s[i] \in chars
  THEN CHOOSE i \in 1..Len(s) : s[i] \in chars /\ \A j \in 1..(i - 1) : s[j] \notin chars
  ELSE 0

\* s cut at position i: the text before and after it (all of s before, if i = 0)
CutAt(s, i) ==
  IF i = 0 THEN [found |-> FALSE, before |-> s, after |-> <<>>]
  ELSE [found |-> TRUE, before |-> SubSeq(s, 1, i - 1), after |-> SubSeq(s, i + 1, Len(s))]

\* s cut at the first occurrence of one of the characters
Split(s, chars) == CutAt(s, FirstIndex(s, chars))

\* PEP 515: an underscore may only stand between two digits
UnderscoresOk(s) ==
  \A i \in 1..Len(s) :
    s[i] = "_" => i > 1 /\ i < Len(s) /\ IsDigit(s[i - 1]) /\ IsDigit(s[i + 1])

NoUnderscores(s) == SelectSeq(s, LAMBDA c : c # "_")

HasSign(s) == s # <<>> /\ Head(s) \in {"+", "-"}

SignOf(s) == IF s # <<>> /\ Head(s) = "-" THEN -1 ELSE 1

Unsigned(s) == IF HasSign(s) THEN Tail(s) ELSE s

BadLiteral == [exc |-> "ValueError", val |-> None]

\* the double nearest to sign * 0.digits * 10^point (digits without leading zero)
ToDouble(sign, digits, point) ==
  IF digits # <<>> /\ Overflows(digits, point) THEN [exc |-> "", val |-> Inf(sign)]
  ELSE [exc |-> "", val |-> MkFin(sign, digits, point)]

\* drops the leading zeros of the digits, moving the point with them
Rounded(sign, digits, point, significant) ==
  ToDouble(sign, significant, point - (Len(digits) - Len(significant)))

\* the mantissa: digits, at most one point, at least one digit
ParseMantissa(sign, m, exponent) ==
  IF AllDigits(m.before \o m.after) /\ Len(m.before) + Len(m.after) >= 1
  THEN Rounded(sign, m.before \o m.after, Len(m.before) + exponent,
               StripLeadingZeros(m.before \o m.after))
  ELSE BadLiteral

\* the exponent after "e": an optional sign and at least one digit
ExponentOk(x) == Unsigned(x) # <<>> /\ AllDigits(Unsigned(x))

ExponentVal(x) == SignOf(x) * DigitsToNat(Unsigned(x))

\* decimal literal: mantissa [("e" | "E") exponent]
ParseDecimal(sign, p) ==
  IF p.found /\ ~ExponentOk(p.after) THEN BadLiteral
  ELSE ParseMantissa(sign, Split(p.before, {"."}), IF p.found THEN ExponentVal(p.after) ELSE 0)

\* after the sign: nan, inf, infinity (in any case), or a decimal literal
ParseUnsigned(sign, body) ==
  IF Lower(body) = <<"n", "a", "n">> THEN [exc |-> "", val |-> NaN]
  ELSE IF Lower(body) \in {<<"i", "n", "f">>, <<"i", "n", "f", "i", "n", "i", "t", "y">>}
    THEN [exc |-> "", val |-> Inf(sign)]
  ELSE IF ~UnderscoresOk(body) THEN BadLiteral
  ELSE ParseDecimal(sign, Split(NoUnderscores(body), {"e", "E"}))

ParseStripped(s) == ParseUnsigned(SignOf(s), Unsigned(s))

\* the float a str denotes: [exc |-> "" | "ValueError", val |-> float]
ParseFloat(text) == ParseStripped(Strip(text))

\* float(int): exact, or OverflowError beyond the range of a double
FloatOfInt(sign, digits, point) ==
  IF digits # <<>> /\ Overflows(digits, point) THEN [exc |-> "OverflowError", val |-> None]
  ELSE [exc |-> "", val |-> MkFin(sign, digits, point)]

Abs(m) == IF m < 0 THEN 0 - m ELSE m

IntToFloat(sign, digits, exponent) == FloatOfInt(sign, digits, Len(digits) + exponent)

\* float(v): [exc |-> "" | "ValueError" | "TypeError" | "OverflowError", val |-> float]
PyFloat(v) ==
  CASE v.t = "float" -> [exc |-> "", val |-> v]
    [] v.t = "str" -> ParseFloat(v.s)
    [] v.t \in {"bool", "int"} -> IntToFloat(IF v.n < 0 THEN -1 ELSE 1, NatToDigits(Abs(v.n)), v.e)
    [] OTHER -> [exc |-> "TypeError", val |-> None]

\* the float an int literal of the source denotes
FloatOfNat(digits) == MkFin(1, digits, Len(digits))

\* a > b for two finite floats a > 0 and b > 0
FinGt(a, b) == a.e > b.e \/ (a.e = b.e /\ LexGt(a.s, b.s))

\* f > m for an int literal m > 0 (False for nan)
FloatGtNat(f, m) ==
  CASE f.k = "inf" -> f.n = 1
    [] f.k = "fin" -> f.n = 1 /\ FinGt(f, FloatOfNat(NatToDigits(m)))
    [] OTHER -> FALSE

\* f < 0 (False for nan)
FloatLtZero(f) == f.k \in {"fin", "inf"} /\ f.n = -1

\* f <= 0 (False for nan)
FloatLeZero(f) == (f.k = "fin" /\ f.n <= 0) \/ (f.k = "inf" /\ f.n = -1)

---------------------------------------------------------------------------
(* datetime.strptime / strftime / date.weekday                             *)

IsLeap(y) == y % 4 = 0 /\ (y % 100 # 0 \/ y % 400 = 0)

DaysInMonth(y, m) ==
  IF m = 2 THEN (IF IsLeap(y) THEN 29 ELSE 28)
  ELSE IF m \in {4, 6, 9, 11} THEN 30 ELSE 31

\* the directive %Y: exactly four digits
MatchesYear(s) == Len(s) = 4 /\ AllDigits(s)

\* the directive %m: 1[0-2] | 0[1-9] | [1-9]
MatchesMonth(s) ==
  \/ Len(s) = 2 /\ s[1] = "1" /\ s[2] \in {"0", "1", "2"}
  \/ Len(s) = 2 /\ s[1] = "0" /\ IsDigit(s[2]) /\ s[2] # "0"
  \/ Len(s) = 1 /\ IsDigit(s[1]) /\ s[1] # "0"

\* the directive %d: 3[01] | [12]\d | 0[1-9] | [1-9] | " "[1-9]
MatchesDay(s) ==
  \/ Len(s) = 2 /\ s[1] = "3" /\ s[2] \in {"0", "1"}
  \/ Len(s) = 2 /\ s[1] \in {"1", "2"} /\ IsDigit(s[2])
  \/ Len(s) = 2 /\ s[1] \in {"0", " "} /\ IsDigit(s[2]) /\ s[2] # "0"
  \/ Len(s) = 1 /\ IsDigit(s[1]) /\ s[1] # "0"

NoDate == [ok |-> FALSE, y |-> 0, m |-> 0, d |-> 0]

\* the calendar check datetime() makes on the parsed fields
CheckedDate(y, m, d) ==
  IF y >= 1 /\ d <= DaysInMonth(y, m) THEN [ok |-> TRUE, y |-> y, m |-> m, d |-> d] ELSE NoDate

\* the three directives matched against the three parts of the text
DateFields(ok, yText, mText, dText) ==
  IF ok /\ MatchesYear(yText) /\ MatchesMonth(mText) /\ MatchesDay(dText)
  THEN CheckedDate(DigitsToNat(yText), DigitsToNat(mText),
                   DigitsToNat(SelectSeq(dText, LAMBDA c : c # " ")))
  ELSE NoDate

\* s as first <sep> second <sep> third, cut at the first two separators
SecondCut(p, q) == [ok |-> p.found /\ q.found, a |-> p.before, b |-> q.before, c |-> q.after]

FirstCut(p, sep) == SecondCut(p, Split(p.after, {sep}))

ThreeParts(s, sep) == FirstCut(Split(s, {sep}), sep)

YearFirst(p) == DateFields(p.ok, p.a, p.b, p.c)

DayFirst(p) == DateFields(p.ok, p.c, p.b, p.a)

\* datetime.strptime(s, '%Y-%m-%d'); ok = FALSE stands for ValueError
StrptimeYMD(s) == YearFirst(ThreeParts(s, "-"))

\* datetime.strptime(s, '%d/%m/%Y'); ok = FALSE stands for ValueError
StrptimeDMY(s) == DayFirst(ThreeParts(s, "/"))

\* the first format the text parses under
FirstParsed(ymd, dmy) == IF ymd.ok THEN ymd ELSE dmy

\* try '%Y-%m-%d', then '%d/%m/%Y'
ParseEitherFormat(text) == FirstParsed(StrptimeYMD(text), StrptimeDMY(text))

\* dt.strftime('%Y-%m-%d').  The C library formats %Y: glibc writes the year
\* without leading zeros ('999-01-01'), other libraries pad it to four digits.
Strftime(dt, padYear) ==
  (IF padYear THEN ZeroPad(NatStr(dt.y), 4) ELSE NatStr(dt.y))
    \o <<"-">> \o ZeroPad(NatStr(dt.m), 2) \o <<"-">> \o ZeroPad(NatStr(dt.d), 2)

\* date.isoformat(), which str(date) returns: always four year digits
IsoFormat(y, m, d) ==
  ZeroPad(NatStr(y), 4) \o <<"-">> \o ZeroPad(NatStr(m), 2) \o <<"-">> \o ZeroPad(NatStr(d), 2)

RECURSIVE DaysBeforeMonth(_, _)
DaysBeforeMonth(y, m) == IF m <= 1 THEN 0 ELSE DaysBeforeMonth(y, m - 1) + DaysInMonth(y, m - 1)

\* date.toordinal(): 1 for 0001-01-01
Ordinal(y, m, d) ==
  365 * (y - 1) + ((y - 1) \div 4) - ((y - 1) \div 100) + ((y - 1) \div 400)
    + DaysBeforeMonth(y, m) + d

\* date.weekday(): 0 for Monday
Weekday(y, m, d) == (Ordinal(y, m, d) + 6) % 7

---------------------------------------------------------------------------
(* str(v)                                                                  *)

\* repr of a finite non-zero float: fixed notation for -4 < point <= 16
FloatRepr(f) ==
  LET sgn == IF f.n < 0 THEN <<"-">> ELSE <<>>
      len == Len(f.s)
      ex == f.e - 1
      exMag == IF ex < 0 THEN 0 - ex ELSE ex
  IN  IF f.e > -4 /\ f.e <= 16
      THEN IF f.e <= 0 THEN sgn \o <<"0", ".">> \o Zeros(0 - f.e) \o f.s
           ELSE IF f.e >= len THEN sgn \o f.s \o Zeros(f.e - len) \o <<".", "0">>
           ELSE sgn \o SubSeq(f.s, 1, f.e) \o <<".">> \o SubSeq(f.s, f.e + 1, len)
      ELSE sgn \o <<Head(f.s)>> \o (IF len > 1 THEN <<".">> \o Tail(f.s) ELSE <<>>)
             \o <<"e", IF ex < 0 THEN "-" ELSE "+">> \o ZeroPad(NatStr(exMag), 2)

\* str(v), the characters
PyStr(v) ==
  CASE v.t = "str" -> v.s
    [] v.t = "None" -> <<"N", "o", "n", "e">>
    [] v.t = "bool" -> IF v.n = 1 THEN <<"T", "r", "u", "e">> ELSE <<"F", "a", "l", "s", "e">>
    [] v.t = "int" ->
         (IF v.n < 0 THEN <<"-">> ELSE <<>>)
           \o NatStr(IF v.n < 0 THEN 0 - v.n ELSE v.n) \o (IF v.n = 0 THEN <<>> ELSE Zeros(v.e))
    [] v.t = "float" ->
         IF v.k = "nan" THEN <<"n", "a", "n">>
         ELSE IF v.k = "inf" THEN (IF v.n < 0 THEN <<"-">> ELSE <<>>) \o <<"i", "n", "f">>
         ELSE IF v.n = 0 THEN <<"0", ".", "0">>
         ELSE FloatRepr(v)
    [] v.t = "date" -> IsoFormat(v.n \div 10000, (v.n \div 100) % 100, v.n % 100)
    [] OTHER -> <<>>

---------------------------------------------------------------------------
(* dict helpers *)

\* d.get(key, default)
Get(d, key, default) == IF key \in DOMAIN d THEN d[key] ELSE default

\* d[key] = value
Put(d, key, value) == [x \in (DOMAIN d) \cup {key} |-> IF x = key THEN value ELSE d[x]]

\* a str literal of the source, from its characters
EmptyStr == Str(<<>>)

---------------------------------------------------------------------------
(* src/etl/validator.py *)

VALID_CURRENCIES == {<<"I", "D", "R">>, <<"U", "S", "D">>, <<"S", "G", "D">>}

VALID_DIRECTIONS == {<<"D", "E", "B", "I", "T">>, <<"C", "R", "E", "D", "I", "T">>}

VALID_ACCOUNT_TYPES ==
  { <<"S", "A", "V", "I", "N", "G", "S">>, <<"C", "U", "R", "R", "E", "N", "T">>,
    <<"C", "R", "E", "D", "I", "T", "_", "C", "A", "R", "D">>, <<"L", "O", "A", "N">> }

\* re.match(r'^TXN\d{7}$', s)
TRANSACTION_ID_PATTERN(s) ==
  /\ Len(s) = 10
  /\ SubSeq(s, 1, 3) = <<"T", "X", "N">>
  /\ AllDigits(SubSeq(s, 4, 10))

ANOMALY_THRESHOLD == 10000000

\* each validate_* returns the name of the exception it raises, "" if it returns
validate_transaction_id(transaction_id) ==
  IF ~Truthy(transaction_id) \/ ~IsStr(transaction_id) THEN "InvalidTransactionIDError"
  ELSE IF ~TRANSACTION_ID_PATTERN(Strip(transaction_id.s)) THEN "InvalidTransactionIDError"
  ELSE ""

validate_date(date_str) ==
  IF ~Truthy(date_str) \/ ~IsStr(date_str) THEN "InvalidDateFormatError"
  ELSE IF ParseEitherFormat(Strip(date_str.s)).ok THEN ""
  ELSE "InvalidDateFormatError"

\* lines 126-134, with amount_float the outcome of float(amount)
CheckAmountFloat(amount_float) ==
  IF amount_float.exc \in {"ValueError", "TypeError"} THEN "InvalidAmountError"
  ELSE IF amount_float.exc # "" THEN amount_float.exc
  ELSE IF FloatLtZero(amount_float.val) THEN "InvalidAmountError"
  ELSE ""

validate_amount(amount) ==
  IF amount = None \/ (IsStr(amount) /\ Strip(amount.s) = <<>>) THEN "InvalidAmountError"
  ELSE CheckAmountFloat(PyFloat(amount))

validate_currency(currency) ==
  IF ~Truthy(currency) \/ ~IsStr(currency) THEN "InvalidCurrencyError"
  ELSE IF Upper(Strip(currency.s)) \notin VALID_CURRENCIES THEN "InvalidCurrencyError"
  ELSE ""

\* the two optional checks return a bool and never raise
validate_direction(direction) ==
  ~(Truthy(direction) /\ IsStr(direction)
      /\ Upper(Strip(direction.s)) \notin VALID_DIRECTIONS)

validate_account_type(account_type) ==
  ~(Truthy(account_type) /\ IsStr(account_type)
      /\ Upper(Strip(account_type.s)) \notin VALID_ACCOUNT_TYPES)

\* a variant that compares with >= instead of >
ExceedsThreshold_AtLeast(f) ==
  IF f.exc # "" THEN [exc |-> f.exc, val |-> None]
  ELSE [exc |-> "", val |-> Bool(FloatGtNat(f.val, ANOMALY_THRESHOLD)
                                   \/ f.val = FloatOfNat(NatToDigits(ANOMALY_THRESHOLD)))]

\* [exc, val]: float(amount) > ANOMALY_THRESHOLD
ExceedsThreshold(f) ==
  IF f.exc # "" THEN [exc |-> f.exc, val |-> None]
  ELSE [exc |-> "", val |-> Bool(FloatGtNat(f.val, ANOMALY_THRESHOLD))]

check_amount_anomaly(amount) == ExceedsThreshold(PyFloat(amount))

\* a variant that checks the amount before the date
MandatoryChecks_AmountBeforeDate(transaction) ==
  << validate_transaction_id(Get(transaction, "transaction_id", EmptyStr)),
     validate_amount(Get(transaction, "amount", None)),
     validate_date(Get(transaction, "transaction_date", EmptyStr)),
     validate_currency(Get(transaction, "currency", EmptyStr)) >>

\* the mandatory checks in the order of the calls; the first exception raised
MandatoryChecks(transaction) ==
  << validate_transaction_id(Get(transaction, "transaction_id", EmptyStr)),
     validate_date(Get(transaction, "transaction_date", EmptyStr)),
     validate_amount(Get(transaction, "amount", None)),
     validate_currency(Get(transaction, "currency", EmptyStr)) >>

\* a variant that writes the flag before it runs the mandatory checks
Validated_FlagFirst(transaction, raised_exc, direction_ok, account_type_ok, anomaly) ==
  IF anomaly.exc # "" THEN [exc |-> anomaly.exc, rec |-> transaction]
  ELSE [exc |-> raised_exc, rec |-> Put(transaction, "amount_anomaly", anomaly.val)]

\* a variant in which a failed optional check ends the call like a mandatory one
Validated_OptionalRaises(transaction, raised_exc, direction_ok, account_type_ok, anomaly) ==
  IF raised_exc # "" THEN [exc |-> raised_exc, rec |-> transaction]
  ELSE IF ~direction_ok \/ ~account_type_ok THEN [exc |-> "ValueError", rec |-> transaction]
  ELSE IF anomaly.exc # "" THEN [exc |-> anomaly.exc, rec |-> transaction]
  ELSE [exc |-> "", rec |-> Put(transaction, "amount_anomaly", anomaly.val)]

FirstRaised(excs) ==
  IF \E i \in 1..Len(excs) : excs[i] # ""
  THEN excs[CHOOSE i \in 1..Len(excs) : excs[i] # "" /\ \A j \in 1..(i - 1) : excs[j] = ""]
  ELSE ""

\* lines 234-253, with the outcomes of the calls: a raising check ends the call
\* before the flag is written
Validated(transaction, raised_exc, direction_ok, account_type_ok, anomaly) ==
  IF raised_exc # "" THEN [exc |-> raised_exc, rec |-> transaction]
  ELSE IF anomaly.exc # "" THEN [exc |-> anomaly.exc, rec |-> transaction]
  ELSE [exc |-> "", rec |-> Put(transaction, "amount_anomaly", anomaly.val)]

\* validate_transaction: [exc, rec], rec the dict that was passed in as the call
\* leaves it (the flag is written into that dict, which is also the return value)
validate_transaction(transaction) ==
  Validated(transaction,
            FirstRaised(MandatoryChecks(transaction)),
            validate_direction(Get(transaction, "direction", EmptyStr)),
            validate_account_type(Get(transaction, "account_type", EmptyStr)),
            check_amount_anomaly(Get(transaction, "amount", IntV(0, 0))))

---------------------------------------------------------------------------
(* the C library under the interpreter: whether strftime pads %Y to 4 digits *)
VARIABLE padYear

---------------------------------------------------------------------------
(* src/etl/cleaner.py *)

trim_whitespace(value) == IF IsStr(value) THEN Str(Strip(value.s)) ELSE value

\* the canonical text of a parsed date, None if it did not parse
Canonical(dt) == IF dt.ok THEN Str(Strftime(dt, padYear)) ELSE None

normalize_date(date_str) ==
  IF ~Truthy(date_str) THEN None ELSE Canonical(ParseEitherFormat(Strip(PyStr(date_str))))

KnownCurrency(currency_clean) ==
  IF currency_clean \notin VALID_CURRENCIES THEN None ELSE Str(currency_clean)

\* a variant that keeps a currency it does not know, trimmed and upper-cased
normalize_currency_KeepUnknown(currency) ==
  IF ~Truthy(currency) THEN None ELSE Str(Upper(Strip(PyStr(currency))))

normalize_currency(currency) ==
  IF ~Truthy(currency) THEN None ELSE KnownCurrency(Upper(Strip(PyStr(currency))))

\* float(value) with ValueError and TypeError caught and turned into None
NoneIfUnparseable(f) ==
  IF f.exc \in {"ValueError", "TypeError"} THEN [exc |-> "", val |-> None] ELSE f

\* [exc, val]
clean_numeric(value) ==
  IF value = None \/ (IsStr(value) /\ Strip(value.s) = <<>>) THEN [exc |-> "", val |-> None]
  ELSE NoneIfUnparseable(PyFloat(value))

Unknown == Str(<<"U", "n", "k", "n", "o", "w", "n">>)

UnknownIfBlank(text) == IF text = <<>> THEN Unknown ELSE Str(text)

clean_merchant_category(merchant_category) ==
  IF ~Truthy(merchant_category) THEN Unknown
  ELSE UnknownIfBlank(Strip(PyStr(merchant_category)))

\* trim_whitespace(value).upper(): only a str has upper()
TrimUpper(value) ==
  IF IsStr(value) THEN [exc |-> "", val |-> Str(Upper(Strip(value.s)))]
  ELSE [exc |-> "AttributeError", val |-> None]

TrimmedKeys == {"transaction_id", "customer_id", "account_id", "channel", "region", "txn_type"}

DateKeys == {"transaction_date", "value_date"}

NumericKeys == {"amount", "risk_score"}

UpperKeys == {"account_type", "direction"}

\* a variant that copies a field without a rule of its own through untrimmed
CleanField_OtherUntrimmed(key, value) ==
  IF key \in TrimmedKeys THEN [exc |-> "", val |-> trim_whitespace(value)]
  ELSE IF key \in DateKeys THEN [exc |-> "", val |-> normalize_date(value)]
  ELSE IF key = "currency" THEN [exc |-> "", val |-> normalize_currency(value)]
  ELSE IF key \in NumericKeys THEN clean_numeric(value)
  ELSE IF key = "merchant_category" THEN [exc |-> "", val |-> clean_merchant_category(value)]
  ELSE IF key \in UpperKeys
    THEN (IF Truthy(value) THEN TrimUpper(value) ELSE [exc |-> "", val |-> value])
  ELSE [exc |-> "", val |-> value]

\* one pass of the loop body of clean_transaction: [exc, val] for cleaned[key]
CleanField(key, value) ==
  IF key \in TrimmedKeys THEN [exc |-> "", val |-> trim_whitespace(value)]
  ELSE IF key \in DateKeys THEN [exc |-> "", val |-> normalize_date(value)]
  ELSE IF key = "currency" THEN [exc |-> "", val |-> normalize_currency(value)]
  ELSE IF key \in NumericKeys THEN clean_numeric(value)
  ELSE IF key = "merchant_category" THEN [exc |-> "", val |-> clean_merchant_category(value)]
  ELSE IF key \in UpperKeys
    THEN (IF Truthy(value) THEN TrimUpper(value) ELSE [exc |-> "", val |-> value])
  ELSE [exc |-> "", val |-> IF IsStr(value) THEN trim_whitespace(value) ELSE value]

\* the loop of clean_transaction, with the outcome of every pass: the first
\* exception ends the call
\* a variant that leaves out the flag the validator attached
Cleaned_DropsFlag(transaction, fields) ==
  IF \E key \in DOMAIN fields : fields[key].exc # ""
  THEN [exc |-> fields[CHOOSE key \in DOMAIN fields : fields[key].exc # ""].exc,
        rec |-> transaction]
  ELSE [exc |-> "",
        rec |-> [key \in DOMAIN fields \ {"amount_anomaly"} |-> fields[key].val]]

Cleaned(transaction, fields) ==
  IF \E key \in DOMAIN fields : fields[key].exc # ""
  THEN [exc |-> fields[CHOOSE key \in DOMAIN fields : fields[key].exc # ""].exc,
        rec |-> transaction]
  ELSE [exc |-> "", rec |-> [key \in DOMAIN fields |-> fields[key].val]]

\* clean_transaction: [exc, rec]; the dict that was passed in is only read
clean_transaction(transaction) ==
  Cleaned(transaction, [key \in DOMAIN transaction |-> CleanField(key, transaction[key])])

---------------------------------------------------------------------------
(* src/etl/transformer.py *)

DateObject(dt) == IF dt.ok THEN DateV(dt.y, dt.m, dt.d) ELSE None

convert_date_to_date_object(date_str) ==
  IF ~Truthy(date_str) THEN None ELSE DateObject(StrptimeYMD(Strip(PyStr(date_str))))

\* [exc, val]: only ValueError and TypeError are caught
convert_amount_to_float(amount) ==
  IF amount = None THEN [exc |-> "", val |-> None] ELSE NoneIfUnparseable(PyFloat(amount))

convert_risk_score_to_float(risk_score) ==
  IF risk_score = None \/ (IsStr(risk_score) /\ Strip(risk_score.s) = <<>>)
  THEN [exc |-> "", val |-> None]
  ELSE NoneIfUnparseable(PyFloat(risk_score))

LARGE_THRESHOLD == 5000000

\* a variant that compares with >= instead of >
is_large_transaction_AtLeast(amount) ==
  IF amount = None THEN Bool(FALSE)
  ELSE Bool(FloatGtNat(amount, LARGE_THRESHOLD) \/ amount = FloatOfNat(NatToDigits(LARGE_THRESHOLD)))

\* a variant whose threshold has one zero too many
is_large_transaction_ExtraZero(amount) ==
  IF amount = None THEN Bool(FALSE) ELSE Bool(FloatGtNat(amount, LARGE_THRESHOLD * 10))

is_large_transaction(amount) ==
  IF amount = None THEN Bool(FALSE) ELSE Bool(FloatGtNat(amount, LARGE_THRESHOLD))

\* a variant that compares the upper-cased text with the lower-case code
is_crossborder_transaction_CaseSlip(currency) ==
  IF ~Truthy(currency) THEN Bool(FALSE)
  ELSE Bool(Upper(Strip(PyStr(currency))) # <<"i", "d", "r">>)

is_crossborder_transaction(currency) ==
  IF ~Truthy(currency) THEN Bool(FALSE)
  ELSE Bool(Upper(Strip(PyStr(currency))) # <<"I", "D", "R">>)

DayNames ==
  << <<"M", "o", "n", "d", "a", "y">>, <<"T", "u", "e", "s", "d", "a", "y">>,
     <<"W", "e", "d", "n", "e", "s", "d", "a", "y">>, <<"T", "h", "u", "r", "s", "d", "a", "y">>,
     <<"F", "r", "i", "d", "a", "y">>, <<"S", "a", "t", "u", "r", "d", "a", "y">>,
     <<"S", "u", "n", "d", "a", "y">> >>

get_transaction_day(date_obj) ==
  IF ~Truthy(date_obj) THEN None
  ELSE Str(DayNames[Weekday(date_obj.n \div 10000, (date_obj.n \div 100) % 100,
                            date_obj.n % 100) + 1])

\* math.log(x) for a float x > 0: kept symbolic as ln(x), except ln(1) = 0.0
MathLog(x) ==
  IF x.k # "fin" THEN x
  ELSE IF x = Fin(1, <<"1">>, 1) THEN Fin(0, <<>>, 0)
  ELSE [t |-> "float", k |-> "ln", s |-> x.s, n |-> x.n, e |-> x.e]

\* a variant that gives 0.0 instead of None for an amount that has no logarithm
calculate_amount_log_ZeroForNonPositive(amount) ==
  IF amount = None THEN None
  ELSE IF FloatLeZero(amount) THEN Fin(0, <<>>, 0)
  ELSE MathLog(amount)

calculate_amount_log(amount) ==
  IF amount = None \/ FloatLeZero(amount) THEN None ELSE MathLog(amount)

\* lines 166-171: the derived features, written into the copy
Derived(transformed_rec, date_obj, amount) ==
  Put(Put(Put(Put(transformed_rec,
    "is_large_transaction", is_large_transaction(amount)),
    "is_crossborder", is_crossborder_transaction(Get(transformed_rec, "currency", EmptyStr))),
    "transaction_day", get_transaction_day(date_obj)),
    "amount_log", calculate_amount_log(amount))

\* lines 153-171, with the outcomes of the three conversions: an exception of a
\* conversion ends the call
Transformed(transaction, date_obj, amount, risk_score) ==
  IF amount.exc # "" THEN [exc |-> amount.exc, rec |-> transaction]
  ELSE IF risk_score.exc # "" THEN [exc |-> risk_score.exc, rec |-> transaction]
  ELSE [exc |-> "",
        rec |-> Derived(Put(Put(Put(transaction, "transaction_date", date_obj),
                                "amount", amount.val), "risk_score", risk_score.val),
                        date_obj, amount.val)]

\* transform_transaction: [exc, rec]; works on a copy of the dict passed in
transform_transaction(transaction) ==
  Transformed(transaction,
              convert_date_to_date_object(Get(transaction, "transaction_date", None)),
              convert_amount_to_float(Get(transaction, "amount", None)),
              convert_risk_score_to_float(Get(transaction, "risk_score", None)))

---------------------------------------------------------------------------
(* Field values the records are built from.  The source's own cases        *)
(* (src/tests/conftest.py, test_validator.py, test_cleaner.py,             *)
(* test_transformer.py) and the boundary values of its rules.              *)

\* "TXN0000001", " TXN0000001 ", "INVALID123", "TXN123456", None
IdValues ==
  { Str(<<"T", "X", "N", "0", "0", "0", "0", "0", "0", "1">>),
    Str(<<" ", "T", "X", "N", "0", "0", "0", "0", "0", "0", "1", " ">>),
    Str(<<"I", "N", "V", "A", "L", "I", "D", "1", "2", "3">>),
    Str(<<"T", "X", "N", "1", "2", "3", "4", "5", "6">>),
    None }

\* "2024-02-21", "21/02/2024", "0999-01-01", "2024-13-45", "02-21-2024", None
DateValues ==
  { Str(<<"2", "0", "2", "4", "-", "0", "2", "-", "2", "1">>),
    Str(<<"2", "1", "/", "0", "2", "/", "2", "0", "2", "4">>),
    Str(<<"0", "9", "9", "9", "-", "0", "1", "-", "0", "1">>),
    Str(<<"2", "0", "2", "4", "-", "1", "3", "-", "4", "5">>),
    Str(<<"0", "2", "-", "2", "1", "-", "2", "0", "2", "4">>),
    None }

\* "5000.50", "0", "-5000.50", "", "abc", "nan", "inf", "10000000", "10000000.01", "15000000.00", "1", None
AmountValues ==
  { Str(<<"5", "0", "0", "0", ".", "5", "0">>),
    Str(<<"0">>),
    Str(<<"-", "5", "0", "0", "0", ".", "5", "0">>),
    Str(<<>>),
    Str(<<"a", "b", "c">>),
    Str(<<"n", "a", "n">>),
    Str(<<"i", "n", "f">>),
    Str(<<"1", "0", "0", "0", "0", "0", "0", "0">>),
    Str(<<"1", "0", "0", "0", "0", "0", "0", "0", ".", "0", "1">>),
    Str(<<"1", "5", "0", "0", "0", "0", "0", "0", ".", "0", "0">>),
    Str(<<"1">>),
    None }

\* "IDR", " usd ", "EUR", None
CurrencyValues ==
  { Str(<<"I", "D", "R">>),
    Str(<<" ", "u", "s", "d", " ">>),
    Str(<<"E", "U", "R">>),
    None }

\* amounts and risk scores beyond the above: "  ", " 42 ", "5000000", "5000001", "1e400", "-inf", "0.1", 0, 5000, 5000.5, True, 10**400
MoreAmountValues ==
  { Str(<<" ", " ">>),
    Str(<<" ", "4", "2", " ">>),
    Str(<<"5", "0", "0", "0", "0", "0", "0">>),
    Str(<<"5", "0", "0", "0", "0", "0", "1">>),
    Str(<<"1", "e", "4", "0", "0">>),
    Str(<<"-", "i", "n", "f">>),
    Str(<<"0", ".", "1">>),
    IntV(0, 0),
    IntV(5000, 0),
    Fin(1, <<"5", "0", "0", "0", "5">>, 4),
    Bool(TRUE),
    IntV(1, 400) }

\* dates beyond the above: "", " 2024-2-1 ", "2024-02-30", "29/02/2024", "01/01/0999", date(2024, 2, 21), 20240221
MoreDateValues ==
  { Str(<<>>),
    Str(<<" ", "2", "0", "2", "4", "-", "2", "-", "1", " ">>),
    Str(<<"2", "0", "2", "4", "-", "0", "2", "-", "3", "0">>),
    Str(<<"2", "9", "/", "0", "2", "/", "2", "0", "2", "4">>),
    Str(<<"0", "1", "/", "0", "1", "/", "0", "9", "9", "9">>),
    DateV(2024, 2, 21),
    IntV(20240221, 0) }

\* currencies beyond the above: "", "  ", "sgd", "IdR", 5
MoreCurrencyValues ==
  { Str(<<>>),
    Str(<<" ", " ">>),
    Str(<<"s", "g", "d">>),
    Str(<<"I", "d", "R">>),
    IntV(5, 0) }

\* direction / account_type: "DEBIT", " debit ", "SIDEWAYS", "credit_card", "", "  ", None, 1, 0, True
EnumValues ==
  { Str(<<"D", "E", "B", "I", "T">>),
    Str(<<" ", "d", "e", "b", "i", "t", " ">>),
    Str(<<"S", "I", "D", "E", "W", "A", "Y", "S">>),
    Str(<<"c", "r", "e", "d", "i", "t", "_", "c", "a", "r", "d">>),
    Str(<<>>),
    Str(<<" ", " ">>),
    None,
    IntV(1, 0),
    IntV(0, 0),
    Bool(TRUE) }

\* merchant_category: "GROCERY", "  ATM ", "", "   ", None, 5, 0, 1.5
CategoryValues ==
  { Str(<<"G", "R", "O", "C", "E", "R", "Y">>),
    Str(<<" ", " ", "A", "T", "M", " ">>),
    Str(<<>>),
    Str(<<" ", " ", " ">>),
    None,
    IntV(5, 0),
    IntV(0, 0),
    Fin(1, <<"1", "5">>, 1) }

\* fields without a rule of their own: "  x ", "0", None, 3, True
OtherValues ==
  { Str(<<" ", " ", "x", " ">>),
    Str(<<"0">>),
    None,
    IntV(3, 0),
    Bool(TRUE) }

\* a record of the four mandatory fields
Mandatory(id, date, amount, currency) ==
  ("transaction_id" :> id) @@ ("transaction_date" :> date)
    @@ ("amount" :> amount) @@ ("currency" :> currency)

\* src/tests/conftest.py, valid_transaction: the four mandatory fields
BaseRecord ==
  Mandatory(Str(<<"T", "X", "N", "0", "0", "0", "0", "0", "0", "1">>), Str(<<"2", "0", "2", "4", "-", "0", "2", "-", "2", "1">>),
            Str(<<"5", "0", "0", "0", ".", "5", "0">>), Str(<<"I", "D", "R">>))

\* d without the key
Without(d, key) == [x \in (DOMAIN d) \ {key} |-> d[x]]

\* what the Record Source hands to the validator: the mandatory fields in every
\* combination of the values above
RawRecords ==
  { Mandatory(id, date, amount, currency) :
      id \in IdValues, date \in DateValues, amount \in AmountValues, currency \in CurrencyValues }

\* the base record with one field changed, added or removed
VariedRecords ==
  UNION {
    { Put(BaseRecord, "amount", v) : v \in MoreAmountValues },
    { Put(BaseRecord, "risk_score", v) : v \in AmountValues \cup MoreAmountValues },
    { Put(BaseRecord, "transaction_date", v) : v \in MoreDateValues },
    { Put(BaseRecord, "value_date", v) : v \in DateValues \cup MoreDateValues },
    { Put(BaseRecord, "currency", v) : v \in MoreCurrencyValues },
    { Put(BaseRecord, "direction", v) : v \in EnumValues },
    { Put(BaseRecord, "account_type", v) : v \in EnumValues },
    { Put(BaseRecord, "merchant_category", v) : v \in CategoryValues },
    { Put(BaseRecord, "customer_id", v) : v \in OtherValues },
    { Put(BaseRecord, "is_fraud_suspected", v) : v \in OtherValues },
    { Without(BaseRecord, key) : key \in DOMAIN BaseRecord } }

\* records with a direction and an account_type, valid ("DEBIT", "credit_card")
\* or not ("SIDEWAYS", "DEBIT" as an account type), around mandatory fields that
\* are valid or not
OptionalRecords ==
  { Put(Put(Mandatory(id, date, amount, currency), "direction", direction),
        "account_type", account_type) :
      id \in {BaseRecord["transaction_id"], Str(<<"I", "N", "V", "A", "L", "I", "D", "1", "2", "3">>)},
      date \in {BaseRecord["transaction_date"], Str(<<"2", "0", "2", "4", "-", "1", "3", "-", "4", "5">>)},
      amount \in {BaseRecord["amount"], Str(<<"-", "5", "0", "0", "0", ".", "5", "0">>)},
      currency \in {BaseRecord["currency"], Str(<<"E", "U", "R">>)},
      direction \in {Str(<<"D", "E", "B", "I", "T">>), Str(<<"S", "I", "D", "E", "W", "A", "Y", "S">>)},
      account_type \in {Str(<<"c", "r", "e", "d", "i", "t", "_", "c", "a", "r", "d">>),
                        Str(<<"D", "E", "B", "I", "T">>)} }

\* every record a stage is called with directly
CallRecords == RawRecords \cup VariedRecords \cup OptionalRecords

---------------------------------------------------------------------------
(* Calling one stage directly on one record, as the unit tests do          *)
(* (src/tests/test_validator.py, test_cleaner.py, test_transformer.py).    *)

VARIABLES
  arg,       \* the dict passed to the call, as it was before the call
  fn,        \* the call made: "none", "validate", "clean", "clean_clean", "transform"
  ret,       \* what the call did: [exc, rec]
  inner,     \* for "clean_clean": what the inner call did
  argAfter   \* the dict that was passed in, after the call

callVars == <<arg, fn, ret, inner, argAfter>>

NoCall == [exc |-> "", rec |-> <<>>]

\* a row as the Record Source yields it: every value a str or None
IsSourceRecord(rec) == \A key \in DOMAIN rec : rec[key].t \in {"str", "None"}

\* validate_transaction(arg) on a raw record: the flag is written into the dict
\* passed in
CallValidate ==
  /\ fn = "none"
  /\ IsSourceRecord(arg)
  /\ fn' = "validate"
  /\ \E r \in {validate_transaction(arg)} : ret' = r /\ argAfter' = r.rec
  /\ UNCHANGED <<arg, inner>>

\* clean_transaction(arg): builds a new dict
CallClean ==
  /\ fn = "none"
  /\ fn' = "clean"
  /\ ret' = clean_transaction(arg)
  /\ UNCHANGED <<arg, inner, argAfter>>

\* clean_transaction(clean_transaction(arg)), once the inner call has returned
CallCleanAgain ==
  /\ fn = "clean"
  /\ ret.exc = ""
  /\ fn' = "clean_clean"
  /\ inner' = ret
  /\ ret' = clean_transaction(ret.rec)
  /\ UNCHANGED <<arg, argAfter>>

\* transform_transaction(arg): works on a copy
CallTransform ==
  /\ fn = "none"
  /\ fn' = "transform"
  /\ ret' = transform_transaction(arg)
  /\ UNCHANGED <<arg, inner, argAfter>>

---------------------------------------------------------------------------
(* src/example.py, process_banking_transactions: the loop over the loaded  *)
(* records.                                                                *)

MaxBatch == 2

\* rows as csv.DictReader yields them: every value a str, or None where the
\* row is shorter than the header
PipelineRecords ==
  { BaseRecord,
    Mandatory(Str(<<" ", "T", "X", "N", "0", "0", "0", "0", "0", "0", "2", " ">>), Str(<<"2", "1", "/", "0", "2", "/", "2", "0", "2", "4">>),
              Str(<<"1", "5", "0", "0", "0", "0", "0", "0", ".", "0", "0">>), Str(<<" ", "u", "s", "d", " ">>))
      @@ ("direction" :> Str(<<"S", "I", "D", "E", "W", "A", "Y", "S">>)) @@ ("merchant_category" :> Str(<<>>)),
    Mandatory(Str(<<"I", "N", "V", "A", "L", "I", "D", "1", "2", "3">>), BaseRecord["transaction_date"],
              BaseRecord["amount"], BaseRecord["currency"]),
    Mandatory(BaseRecord["transaction_id"], Str(<<"2", "0", "2", "4", "-", "1", "3", "-", "4", "5">>),
              BaseRecord["amount"], BaseRecord["currency"]),
    Mandatory(BaseRecord["transaction_id"], BaseRecord["transaction_date"],
              Str(<<"-", "5", "0", "0", "0", ".", "5", "0">>), BaseRecord["currency"]),
    Mandatory(BaseRecord["transaction_id"], BaseRecord["transaction_date"],
              BaseRecord["amount"], Str(<<"E", "U", "R">>)),
    Mandatory(BaseRecord["transaction_id"], BaseRecord["transaction_date"],
              Str(<<"n", "a", "n">>), BaseRecord["currency"]),
    Mandatory(BaseRecord["transaction_id"], Str(<<"0", "9", "9", "9", "-", "0", "1", "-", "0", "1">>),
              BaseRecord["amount"], BaseRecord["currency"]),
    Mandatory(BaseRecord["transaction_id"], BaseRecord["transaction_date"],
              BaseRecord["amount"], None) }

RECURSIVE SeqsUpTo(_, _)
SeqsUpTo(S, len) ==
  IF len = 0 THEN {<<>>}
  ELSE SeqsUpTo(S, len - 1)
         \cup {Append(q, x) : q \in {p \in SeqsUpTo(S, len - 1) : Len(p) = len - 1}, x \in S}

Min(a, b) == IF a <= b THEN a ELSE b

---------------------------------------------------------------------------
(* src/etl/loader.py, load_csv: a file is its header row and its lines,    *)
(* each line the list of fields csv.reader splits it into (a blank line    *)
(* has no field).                                                          *)

MaxLines == 2

mandatory_columns ==
  {"transaction_id", "transaction_date", "customer_id", "account_id", "amount", "currency"}

\* the files load_csv is called on: a path with no file; an empty file (no header
\* row); and a header of the mandatory columns, with one more column or with one
\* missing, followed by lines of 0, 1, 5, 6, 7 or 8 fields that are all empty or
\* all filled
CsvFiles ==
  { [exists |-> FALSE, fieldnames |-> <<>>, lines |-> <<>>],
    [exists |-> TRUE, fieldnames |-> <<>>, lines |-> <<>>] }
  \cup
  [ exists : {TRUE},
    fieldnames : { <<"transaction_id", "transaction_date", "customer_id", "account_id",
                     "amount", "currency">>,
                   <<"transaction_id", "transaction_date", "customer_id", "account_id",
                     "amount", "currency", "region">>,
                   <<"transaction_id", "transaction_date", "customer_id", "account_id",
                     "amount">> },
    lines : SeqsUpTo({ [i \in 1..n |-> field] :
                         n \in {0, 1, 5, 6, 7, 8}, field \in {<<>>, <<"a">>, <<"b">>} },
                     MaxLines) ]

\* the dict csv.DictReader makes of a line: a field per column in order, None for
\* the columns the line has no field for, and the fields beyond the last column
\* as a list under the key None
DictRow(fieldnames, line) ==
  [ key \in {fieldnames[i] : i \in 1..Len(fieldnames)}
              \cup (IF Len(line) > Len(fieldnames) THEN {"None"} ELSE {}) |->
      IF key = "None"
      THEN [t |-> "list", k |-> "", s |-> SubSeq(line, Len(fieldnames) + 1, Len(line)),
            n |-> 0, e |-> 0]
      ELSE IF (CHOOSE i \in 1..Len(fieldnames) : fieldnames[i] = key) <= Len(line)
           THEN Str(line[CHOOSE i \in 1..Len(fieldnames) : fieldnames[i] = key])
           ELSE None ]

VARIABLES
  file,      \* the file at the path load_csv is called with
  lpc,       \* "idle", "open", "rows" or "done"
  pos,       \* the line the reader is at (1 is the first line after the header)
  rows,      \* load_csv's list of rows
  loadRet    \* what load_csv did: [exc, rows]

\* lines 58-87: the file and its header
OpenFile ==
  /\ lpc = "open"
  /\ IF ~file.exists
     THEN lpc' = "done" /\ loadRet' = [exc |-> "CSVFileNotFoundError", rows |-> <<>>]
     ELSE IF file.fieldnames = <<>>
               \/ ~(mandatory_columns \subseteq {file.fieldnames[i] : i \in 1..Len(file.fieldnames)})
     THEN lpc' = "done" /\ loadRet' = [exc |-> "CSVMissingMandatoryFieldError", rows |-> <<>>]
     ELSE lpc' = "rows" /\ UNCHANGED loadRet
  /\ UNCHANGED <<file, pos, rows>>

\* lines 90-106: the reader's next line; csv.DictReader passes over a blank line
ReadRow ==
  /\ lpc = "rows"
  /\ pos <= Len(file.lines)
  /\ \E row \in {DictRow(file.fieldnames, file.lines[pos])} :
       IF file.lines[pos] = <<>>
       THEN pos' = pos + 1 /\ UNCHANGED <<lpc, rows, loadRet>>
       ELSE IF ~(\E key \in DOMAIN row : row[key].t = "list" \/ Truthy(row[key]))
       THEN /\ lpc' = "done"
            /\ loadRet' = [exc |-> "CSVEmptyRowError", rows |-> <<>>]
            /\ UNCHANGED <<pos, rows>>
       ELSE IF Cardinality(DOMAIN row) # Len(file.fieldnames)
       THEN /\ lpc' = "done"
            /\ loadRet' = [exc |-> "CSVColumnMismatchError", rows |-> <<>>]
            /\ UNCHANGED <<pos, rows>>
       ELSE /\ rows' = Append(rows, row)
            /\ pos' = pos + 1
            /\ UNCHANGED <<lpc, loadRet>>
  /\ UNCHANGED file

\* lines 108-109: the reader is exhausted
ReturnRows ==
  /\ lpc = "rows"
  /\ pos > Len(file.lines)
  /\ lpc' = "done"
  /\ loadRet' = [exc |-> "", rows |-> rows]
  /\ UNCHANGED <<file, pos, rows>>

---------------------------------------------------------------------------
(* src/utils/async_api.py: fetch_quote under retry_on_failure, and          *)
(* fetch_multiple_quotes gathering one task per symbol.                    *)

MAX_RETRIES == 3

MaxSymbols == 2

\* how one call of fetch_quote can end: "ok" (it returns the quote dict) or the
\* exception it raises; an empty symbol raises ValueError before any request
FetchOutcomes(symbol) ==
  IF symbol = "" THEN {"ValueError"} ELSE {"ok", "TimeoutError", "ClientError"}

VARIABLES
  symbols,   \* the list fetch_multiple_quotes is called with
  calls,     \* per task: how each call of the wrapped coroutine ended, in order
  slept,     \* per task: the number of asyncio.sleep(1) the wrapper has begun
  tstate,    \* per task: "ready", "sleeping", "returned" or "raised"
  result,    \* per task: what the task ended with, a dict or an exception
  finished,  \* the tasks in the order they ended
  gpc,       \* "idle", "gathering" or "returned"
  quotes     \* the list fetch_multiple_quotes returns

ioVars == <<file, lpc, pos, rows, loadRet, symbols, calls, slept, tstate, result, finished,
            gpc, quotes>>

\* a variant that raises what the first attempt raised
Attempt_RaisesFirst(i) ==
  /\ tstate[i] = "ready"
  /\ \E o \in FetchOutcomes(symbols[i]) :
       /\ calls' = [calls EXCEPT ![i] = Append(@, o)]
       /\ IF o = "ok"
          THEN /\ tstate' = [tstate EXCEPT ![i] = "returned"]
               /\ result' = [result EXCEPT ![i] = [t |-> "dict", symbol |-> symbols[i]]]
               /\ finished' = Append(finished, i)
               /\ UNCHANGED slept
          ELSE IF Len(calls[i]) + 1 < MAX_RETRIES
          THEN /\ tstate' = [tstate EXCEPT ![i] = "sleeping"]
               /\ slept' = [slept EXCEPT ![i] = @ + 1]
               /\ UNCHANGED <<result, finished>>
          ELSE /\ tstate' = [tstate EXCEPT ![i] = "raised"]
               /\ result' = [result EXCEPT ![i] = [t |-> Append(calls[i], o)[1], symbol |-> symbols[i]]]
               /\ finished' = Append(finished, i)
               /\ UNCHANGED slept
  /\ UNCHANGED <<symbols, gpc, quotes>>

\* a variant that sleeps after every failed attempt, the last one too
Attempt_SleepsAfterLast(i) ==
  /\ tstate[i] = "ready"
  /\ \E o \in FetchOutcomes(symbols[i]) :
       /\ calls' = [calls EXCEPT ![i] = Append(@, o)]
       /\ IF o = "ok"
          THEN /\ tstate' = [tstate EXCEPT ![i] = "returned"]
               /\ result' = [result EXCEPT ![i] = [t |-> "dict", symbol |-> symbols[i]]]
               /\ finished' = Append(finished, i)
               /\ UNCHANGED slept
          ELSE IF Len(calls[i]) + 1 < MAX_RETRIES
          THEN /\ tstate' = [tstate EXCEPT ![i] = "sleeping"]
               /\ slept' = [slept EXCEPT ![i] = @ + 1]
               /\ UNCHANGED <<result, finished>>
          ELSE /\ tstate' = [tstate EXCEPT ![i] = "raised"]
               /\ slept' = [slept EXCEPT ![i] = @ + 1]
               /\ result' = [result EXCEPT ![i] = [t |-> o, symbol |-> symbols[i]]]
               /\ finished' = Append(finished, i)
  /\ UNCHANGED <<symbols, gpc, quotes>>

\* lines 34-76, one pass of the wrapper's loop in task i: the wrapped coroutine
\* is called under wait_for; its result is returned, or its exception is kept
\* and the wrapper sleeps if attempts are left and raises it if none is
Attempt(i) ==
  /\ tstate[i] = "ready"
  /\ \E o \in FetchOutcomes(symbols[i]) :
       /\ calls' = [calls EXCEPT ![i] = Append(@, o)]
       /\ IF o = "ok"
          THEN /\ tstate' = [tstate EXCEPT ![i] = "returned"]
               /\ result' = [result EXCEPT ![i] = [t |-> "dict", symbol |-> symbols[i]]]
               /\ finished' = Append(finished, i)
               /\ UNCHANGED slept
          ELSE IF Len(calls[i]) + 1 < MAX_RETRIES
          THEN /\ tstate' = [tstate EXCEPT ![i] = "sleeping"]
               /\ slept' = [slept EXCEPT ![i] = @ + 1]
               /\ UNCHANGED <<result, finished>>
          ELSE /\ tstate' = [tstate EXCEPT ![i] = "raised"]
               /\ result' = [result EXCEPT ![i] = [t |-> o, symbol |-> symbols[i]]]
               /\ finished' = Append(finished, i)
               /\ UNCHANGED slept
  /\ UNCHANGED <<symbols, gpc, quotes>>

\* lines 52, 60, 68: the sleep of task i is over and the loop goes on
Wake(i) ==
  /\ tstate[i] = "sleeping"
  /\ tstate' = [tstate EXCEPT ![i] = "ready"]
  /\ UNCHANGED <<symbols, calls, slept, result, finished, gpc, quotes>>

\* a variant that collects the quotes in the order the tasks ended
Gather_CompletionOrder ==
  /\ gpc = "gathering"
  /\ \A i \in 1..Len(symbols) : tstate[i] \in {"returned", "raised"}
  /\ gpc' = "returned"
  /\ LET IsDict(r) == r.t = "dict"
     IN  quotes' = SelectSeq([k \in 1..Len(finished) |-> result[finished[k]]], IsDict)
  /\ UNCHANGED <<symbols, calls, slept, tstate, result, finished>>

\* lines 145-157: gather has the result of every task, in the order of the
\* symbols; the dicts among them are returned
Gather ==
  /\ gpc = "gathering"
  /\ \A i \in 1..Len(symbols) : tstate[i] \in {"returned", "raised"}
  /\ gpc' = "returned"
  /\ LET IsDict(r) == r.t = "dict"
     IN  quotes' = SelectSeq(result, IsDict)
  /\ UNCHANGED <<symbols, calls, slept, tstate, result, finished>>

---------------------------------------------------------------------------
(* src/example.py, process_banking_transactions: the state of the loop     *)

VARIABLES
  loaded,        \* the rows as load_csv returned them (never changed)
  transactions,  \* the same row objects, as they are now
  limit,         \* min(max_records, len(transactions))
  idx,           \* position of the loop (enumerate(..., 1))
  pc,            \* "validate", "clean", "transform", "log", "except", "summary", "done"
  validated, cleaned, transformed,   \* the loop's locals
  raised,        \* the exception the try block raised
  successful, failed,
  stages,        \* per record: the stages that were called on it, in order
  state,         \* per record: "Pending", "Validated-Failed", "Transformed" or "Failed"
  output,        \* per record: the transformed record, once there is one
  outcome        \* of the call: "running", "returned" or the exception that escaped

pipeVars == <<loaded, transactions, limit, idx, pc, validated, cleaned, transformed,
              raised, successful, failed, stages, state, output, outcome>>

vars == <<padYear, callVars, ioVars, pipeVars>>

Unbound == <<>>

\* line 50: the loop head, after record idx has been dealt with
LoopHead(next) == IF next <= limit THEN "validate" ELSE "summary"

\* line 53
Validate ==
  /\ pc = "validate"
  /\ \E r \in {validate_transaction(transactions[idx])} :
         /\ transactions' = [transactions EXCEPT ![idx] = r.rec]
         /\ stages' = [stages EXCEPT ![idx] = Append(@, "validate")]
         /\ IF r.exc = ""
            THEN validated' = r.rec /\ pc' = "clean" /\ UNCHANGED raised
            ELSE pc' = "except" /\ raised' = r.exc /\ UNCHANGED validated
  /\ UNCHANGED <<padYear, callVars, ioVars, loaded, limit, idx, cleaned, transformed,
                 successful, failed, state, output, outcome>>

\* a variant in which the cleaner fills one dict shared by all records
Clean_SharedDict ==
  /\ pc = "clean"
  /\ \E r \in {clean_transaction(validated)} :
         /\ stages' = [stages EXCEPT ![idx] = Append(@, "clean")]
         /\ IF r.exc = ""
            THEN cleaned' = r.rec @@ cleaned /\ pc' = "transform" /\ UNCHANGED raised
            ELSE pc' = "except" /\ raised' = r.exc /\ UNCHANGED cleaned
  /\ UNCHANGED <<padYear, callVars, ioVars, loaded, transactions, limit, idx, validated,
                 transformed, successful, failed, state, output, outcome>>

\* line 56
Clean ==
  /\ pc = "clean"
  /\ \E r \in {clean_transaction(validated)} :
         /\ stages' = [stages EXCEPT ![idx] = Append(@, "clean")]
         /\ IF r.exc = ""
            THEN cleaned' = r.rec /\ pc' = "transform" /\ UNCHANGED raised
            ELSE pc' = "except" /\ raised' = r.exc /\ UNCHANGED cleaned
  /\ UNCHANGED <<padYear, callVars, ioVars, loaded, transactions, limit, idx, validated,
                 transformed, successful, failed, state, output, outcome>>

\* line 59
Transform ==
  /\ pc = "transform"
  /\ \E r \in {transform_transaction(cleaned)} :
         /\ stages' = [stages EXCEPT ![idx] = Append(@, "transform")]
         /\ IF r.exc = ""
            THEN transformed' = r.rec /\ pc' = "log" /\ UNCHANGED raised
            ELSE pc' = "except" /\ raised' = r.exc /\ UNCHANGED transformed
  /\ UNCHANGED <<padYear, callVars, ioVars, loaded, transactions, limit, idx, validated,
                 cleaned, successful, failed, state, output, outcome>>

\* lines 61-71: the report of the record (every key it reads is there) and the count
Log ==
  /\ pc = "log"
  /\ successful' = successful + 1
  /\ state' = [state EXCEPT ![idx] = "Transformed"]
  /\ output' = [output EXCEPT ![idx] = transformed]
  /\ idx' = idx + 1
  /\ pc' = LoopHead(idx + 1)
  /\ UNCHANGED <<padYear, callVars, ioVars, loaded, transactions, limit, validated, cleaned,
                 transformed, raised, stages, failed, outcome>>

\* a variant that gives a record whose validation raised a second try
Except_Retry ==
  /\ pc = "except"
  /\ IF stages[idx] = <<"validate">>
     THEN /\ pc' = "validate"
          /\ UNCHANGED <<idx, failed, state>>
     ELSE /\ failed' = failed + 1
          /\ state' = [state EXCEPT ![idx] =
                         IF stages[idx] = <<"validate", "validate">> THEN "Validated-Failed" ELSE "Failed"]
          /\ idx' = idx + 1
          /\ pc' = LoopHead(idx + 1)
  /\ UNCHANGED <<padYear, callVars, ioVars, loaded, transactions, limit, validated, cleaned,
                 transformed, raised, stages, successful, output, outcome>>

\* a variant in which a failed record ends the loop
Except_StopsLoop ==
  /\ pc = "except"
  /\ failed' = failed + 1
  /\ state' = [state EXCEPT ![idx] =
                 IF stages[idx] = <<"validate">> THEN "Validated-Failed" ELSE "Failed"]
  /\ idx' = idx + 1
  /\ pc' = "summary"
  /\ UNCHANGED <<padYear, callVars, ioVars, loaded, transactions, limit, validated, cleaned,
                 transformed, raised, stages, successful, output, outcome>>

\* lines 73-75: any exception of the try block ends the record
Except ==
  /\ pc = "except"
  /\ failed' = failed + 1
  /\ state' = [state EXCEPT ![idx] =
                 IF stages[idx] = <<"validate">> THEN "Validated-Failed" ELSE "Failed"]
  /\ idx' = idx + 1
  /\ pc' = LoopHead(idx + 1)
  /\ UNCHANGED <<padYear, callVars, ioVars, loaded, transactions, limit, validated, cleaned,
                 transformed, raised, stages, successful, output, outcome>>

\* lines 77-85: the success rate divides by successful + failed
Summary ==
  /\ pc = "summary"
  /\ pc' = "done"
  /\ outcome' = IF successful + failed = 0 THEN "ZeroDivisionError" ELSE "returned"
  /\ UNCHANGED <<padYear, callVars, ioVars, loaded, transactions, limit, idx, validated, cleaned,
                 transformed, raised, stages, successful, failed, state, output>>

\* lines 44-48, after load_csv has returned the rows
Init ==
  /\ padYear \in BOOLEAN
  /\ arg = Unbound /\ fn = "pipeline" /\ ret = NoCall /\ inner = NoCall /\ argAfter = Unbound
  /\ file = [exists |-> FALSE, fieldnames |-> <<>>, lines |-> <<>>]
  /\ lpc = "idle" /\ pos = 1 /\ rows = <<>> /\ loadRet = [exc |-> "", rows |-> <<>>]
  /\ symbols = <<>> /\ calls = <<>> /\ slept = <<>> /\ tstate = <<>> /\ result = <<>>
  /\ finished = <<>> /\ gpc = "idle" /\ quotes = <<>>
  /\ loaded \in SeqsUpTo(PipelineRecords, MaxBatch)
  /\ transactions = loaded
  /\ \E max_records \in 0..MaxBatch : limit = Min(max_records, Len(loaded))
  /\ idx = 1
  /\ pc = LoopHead(1)
  /\ validated = Unbound /\ cleaned = Unbound /\ transformed = Unbound
  /\ raised = ""
  /\ successful = 0 /\ failed = 0
  /\ stages = [i \in 1..Len(loaded) |-> <<>>]
  /\ state = [i \in 1..Len(loaded) |-> "Pending"]
  /\ output = [i \in 1..Len(loaded) |-> Unbound]
  /\ outcome = "running"

Next == Validate \/ Clean \/ Transform \/ Log \/ Except \/ Summary

Spec == Init /\ [][Next]_vars

\* one direct call of one stage on one record
CallInit ==
  /\ padYear \in BOOLEAN
  /\ arg \in CallRecords
  /\ fn = "none" /\ ret = NoCall /\ inner = NoCall /\ argAfter = arg
  /\ file = [exists |-> FALSE, fieldnames |-> <<>>, lines |-> <<>>]
  /\ lpc = "idle" /\ pos = 1 /\ rows = <<>> /\ loadRet = [exc |-> "", rows |-> <<>>]
  /\ symbols = <<>> /\ calls = <<>> /\ slept = <<>> /\ tstate = <<>> /\ result = <<>>
  /\ finished = <<>> /\ gpc = "idle" /\ quotes = <<>>
  /\ loaded = <<>> /\ transactions = <<>> /\ limit = 0 /\ idx = 1 /\ pc = "done"
  /\ validated = Unbound /\ cleaned = Unbound /\ transformed = Unbound
  /\ raised = ""
  /\ successful = 0 /\ failed = 0
  /\ stages = <<>> /\ state = <<>> /\ output = <<>>
  /\ outcome = "running"

CallNext ==
  \/ CallValidate /\ UNCHANGED <<padYear, ioVars, pipeVars>>
  \/ CallClean /\ UNCHANGED <<padYear, ioVars, pipeVars>>
  \/ CallCleanAgain /\ UNCHANGED <<padYear, ioVars, pipeVars>>
  \/ CallTransform /\ UNCHANGED <<padYear, ioVars, pipeVars>>

CallSpec == CallInit /\ [][CallNext]_vars

\* one call of load_csv on one file, or one call of fetch_multiple_quotes on one
\* list of symbols, each task starting at its first attempt
IoInit ==
  /\ padYear = FALSE
  /\ arg = Unbound /\ fn = "io" /\ ret = NoCall /\ inner = NoCall /\ argAfter = Unbound
  /\ loaded = <<>> /\ transactions = <<>> /\ limit = 0 /\ idx = 1 /\ pc = "done"
  /\ validated = Unbound /\ cleaned = Unbound /\ transformed = Unbound
  /\ raised = ""
  /\ successful = 0 /\ failed = 0
  /\ stages = <<>> /\ state = <<>> /\ output = <<>>
  /\ outcome = "running"
  /\ pos = 1 /\ rows = <<>> /\ loadRet = [exc |-> "", rows |-> <<>>]
  /\ finished = <<>> /\ quotes = <<>>
  /\ \/ /\ file \in CsvFiles
        /\ lpc = "open"
        /\ symbols = <<>> /\ gpc = "idle"
     \/ /\ file = [exists |-> FALSE, fieldnames |-> <<>>, lines |-> <<>>]
        /\ lpc = "idle"
        /\ symbols \in SeqsUpTo({"AAPL", "GOOGL", ""}, MaxSymbols)
        /\ gpc = "gathering"
  /\ calls = [i \in 1..Len(symbols) |-> <<>>]
  /\ slept = [i \in 1..Len(symbols) |-> 0]
  /\ tstate = [i \in 1..Len(symbols) |-> "ready"]
  /\ result = [i \in 1..Len(symbols) |-> [t |-> "pending", symbol |-> symbols[i]]]

IoNext ==
  \/ OpenFile /\ UNCHANGED <<padYear, callVars, pipeVars, symbols, calls, slept, tstate, result, finished, gpc, quotes>>
  \/ ReadRow /\ UNCHANGED <<padYear, callVars, pipeVars, symbols, calls, slept, tstate, result, finished, gpc, quotes>>
  \/ ReturnRows /\ UNCHANGED <<padYear, callVars, pipeVars, symbols, calls, slept, tstate, result, finished, gpc, quotes>>
  \/ \E i \in 1..Len(symbols) :
       Attempt(i) /\ UNCHANGED <<padYear, callVars, pipeVars, file, lpc, pos, rows, loadRet>>
  \/ \E i \in 1..Len(symbols) :
       Wake(i) /\ UNCHANGED <<padYear, callVars, pipeVars, file, lpc, pos, rows, loadRet>>
  \/ Gather /\ UNCHANGED <<padYear, callVars, pipeVars, file, lpc, pos, rows, loadRet>>

IoSpec == IoInit /\ [][IoNext]_vars

---------------------------------------------------------------------------
(* Claims about validate_transaction, checked under CallSpec               *)

MandatoryErrors ==
  {"InvalidTransactionIDError", "InvalidDateFormatError", "InvalidAmountError",
   "InvalidCurrencyError"}

IdInvalid(rec) == validate_transaction_id(Get(rec, "transaction_id", EmptyStr)) # ""

DateInvalid(rec) == validate_date(Get(rec, "transaction_date", EmptyStr)) # ""

AmountInvalid(rec) == validate_amount(Get(rec, "amount", None)) # ""

CurrencyInvalid(rec) == validate_currency(Get(rec, "currency", EmptyStr)) # ""

\* the error of the first failing field in the order id, date, amount, currency
FirstFailingField(rec) ==
  IF IdInvalid(rec) THEN "InvalidTransactionIDError"
  ELSE IF DateInvalid(rec) THEN "InvalidDateFormatError"
  ELSE IF AmountInvalid(rec) THEN "InvalidAmountError"
  ELSE IF CurrencyInvalid(rec) THEN "InvalidCurrencyError"
  ELSE ""

\* C1: validate_transaction raises the error of the first failing mandatory field
\* in the order transaction_id, transaction_date, amount, currency (and raises
\* nothing when no mandatory field fails).
C1_FirstFailingFieldRaised == fn = "validate" => ret.exc = FirstFailingField(arg)

\* C1 witness: date, amount and currency are all invalid and the date error is raised
C1_Witness ==
  /\ fn = "validate"
  /\ ~IdInvalid(arg) /\ DateInvalid(arg) /\ AmountInvalid(arg) /\ CurrencyInvalid(arg)
  /\ ret.exc = "InvalidDateFormatError"

\* C2: when validate_transaction raises one of the four mandatory-field errors the
\* dict that was passed in has no amount_anomaly and all its fields are unchanged.
C2_NoFlagWhenRaised ==
  (fn = "validate" /\ ret.exc \in MandatoryErrors)
    => (argAfter = arg /\ "amount_anomaly" \notin DOMAIN argAfter)

\* C2 witness: only the last check (currency) fails, for an amount above the threshold
C2_Witness ==
  /\ fn = "validate"
  /\ ret.exc = "InvalidCurrencyError"
  /\ check_amount_anomaly(Get(arg, "amount", None)).val = Bool(TRUE)
  /\ argAfter = arg

\* the amount of the record as a number, when it is a non-negative number
NonNegativeNumber(amount) ==
  /\ amount # None
  /\ PyFloat(amount).exc = ""
  /\ PyFloat(amount).val.k \in {"fin", "inf"}
  /\ PyFloat(amount).val.n >= 0

\* the precondition of C3, in the words of the claim
WellFormedRecord(rec) ==
  /\ {"transaction_id", "transaction_date", "amount", "currency"} \subseteq DOMAIN rec
  /\ IsStr(rec["transaction_id"])
  /\ Len(Strip(rec["transaction_id"].s)) = 10
  /\ SubSeq(Strip(rec["transaction_id"].s), 1, 3) = <<"T", "X", "N">>
  /\ AllDigits(SubSeq(Strip(rec["transaction_id"].s), 4, 10))
  /\ IsStr(rec["transaction_date"])
  /\ (StrptimeYMD(Strip(rec["transaction_date"].s)).ok
        \/ StrptimeDMY(Strip(rec["transaction_date"].s)).ok)
  /\ NonNegativeNumber(rec["amount"])
  /\ IsStr(rec["currency"])
  /\ Upper(Strip(rec["currency"].s)) \in {<<"I", "D", "R">>, <<"U", "S", "D">>, <<"S", "G", "D">>}

\* C3: on a well-formed record validate_transaction returns without raising and
\* sets amount_anomaly to (amount > 10,000,000); an amount of exactly 10,000,000
\* gives False.
C3_AnomalyFlag ==
  (fn = "validate" /\ WellFormedRecord(arg))
    => /\ ret.exc = ""
       /\ "amount_anomaly" \in DOMAIN ret.rec
       /\ ret.rec["amount_anomaly"] = Bool(FloatGtNat(PyFloat(arg["amount"]).val, 10000000))
       /\ (PyFloat(arg["amount"]).val = FloatOfNat(NatToDigits(10000000))
             => ret.rec["amount_anomaly"] = Bool(FALSE))

\* C3 witness: a well-formed record with the amount exactly at the threshold
C3_Witness ==
  /\ fn = "validate"
  /\ WellFormedRecord(arg)
  /\ PyFloat(arg["amount"]).val = FloatOfNat(NatToDigits(10000000))
  /\ ret.exc = ""
  /\ ret.rec["amount_anomaly"] = Bool(FALSE)

\* an amount the claim C7 lets pass: non-empty, a real number, >= 0
RealNonNegative(amount) ==
  /\ amount # None
  /\ ~(IsStr(amount) /\ Strip(amount.s) = <<>>)
  /\ PyFloat(amount).exc = ""
  /\ PyFloat(amount).val.k = "fin"
  /\ PyFloat(amount).val.n >= 0

\* C7: validate_transaction accepts an amount only if it is non-empty, parses as a
\* real number and is >= 0; every other amount (null, blank, non-numeric,
\* negative, nan, infinity) raises InvalidAmountError, and zero is accepted.
C7_OnlyRealNonNegativeAccepted ==
  (fn = "validate" /\ ~IdInvalid(arg) /\ ~DateInvalid(arg))
    => (ret.exc = "InvalidAmountError" <=> ~RealNonNegative(Get(arg, "amount", None)))

\* C7 (the case that fails): an amount text that parses to not-a-number passes
\* the amount check
C7_NanAccepted ==
  /\ fn = "validate"
  /\ Get(arg, "amount", None) = Str(<<"n", "a", "n">>)
  /\ ret.exc = ""

---------------------------------------------------------------------------
(* Claims about clean_transaction and transform_transaction, under CallSpec *)

\* C8: clean_transaction never fails: for every input record, non-textual field
\* values included, it returns a cleaned record and raises no exception.
C8_CleanNeverRaises == fn = "clean" => ret.exc = ""

\* C8 (the case that fails): a direction that is a number
C8_NumberAsDirection ==
  /\ fn = "clean"
  /\ "direction" \in DOMAIN arg
  /\ arg["direction"] = IntV(1, 0)
  /\ ret.exc = "AttributeError"

\* C9: transform_transaction never fails: for every input record it returns a
\* record and raises no exception.
C9_TransformNeverRaises == fn = "transform" => ret.exc = ""

\* C9 (the case that fails): an amount that is an int beyond the range of a float
C9_HugeIntAmount ==
  /\ fn = "transform"
  /\ Get(arg, "amount", None) = IntV(1, 400)
  /\ ret.exc = "OverflowError"

\* C10: clean_transaction is idempotent: clean(clean(x)) = clean(x) for every
\* record x that clean_transaction cleans.
C10_CleanIdempotent == fn = "clean_clean" => (ret.exc = "" /\ ret.rec = inner.rec)

\* C10 (the case that fails): a date of a year below 1000, where strftime does not
\* pad the year: the canonical text of the first pass does not parse in the second
C10_YearBelow1000 ==
  /\ fn = "clean_clean"
  /\ ~padYear
  /\ Get(arg, "transaction_date", None) = Str(<<"0", "9", "9", "9", "-", "0", "1", "-", "0", "1">>)
  /\ inner.rec["transaction_date"] = Str(<<"9", "9", "9", "-", "0", "1", "-", "0", "1">>)
  /\ ret.rec["transaction_date"] = None

---------------------------------------------------------------------------
(* Claims about the per-record pipeline, under Spec                        *)

AllStages == <<"validate", "clean", "transform">>

IsPrefix(p, q) == Len(p) <= Len(q) /\ p = SubSeq(q, 1, Len(p))

\* the records the loop has dealt with
Processed == 1..(idx - 1)

\* C4: every record the loop has dealt with is in exactly one of the terminal
\* states Validated-Failed and Transformed; validate, clean and transform have
\* each run at most once on a record and only in that order; and on a record
\* whose validation raised only validate has run.
C4_LinearOneShot ==
  /\ \A i \in 1..Len(loaded) :
       /\ IsPrefix(stages[i], AllStages)
       /\ state[i] \in {"Pending", "Validated-Failed", "Transformed"}
       /\ state[i] = "Pending" <=> i \notin Processed
       /\ state[i] = "Validated-Failed"
            => (stages[i] = <<"validate">> /\ validate_transaction(loaded[i]).exc # "")
       /\ state[i] = "Transformed"
            => (stages[i] = AllStages /\ validate_transaction(loaded[i]).exc = "")
       /\ i > idx => stages[i] = <<>>
  /\ pc \in {"summary", "done"} => Processed = 1..limit
  /\ successful + failed = idx - 1

\* C4 witness: a finished batch with a record in each terminal state
C4_Witness ==
  /\ pc = "done"
  /\ \E i, j \in 1..limit :
       /\ state[i] = "Validated-Failed" /\ stages[i] = <<"validate">>
       /\ state[j] = "Transformed" /\ stages[j] = AllStages

\* the terminal state and the output of a record that is processed alone
AloneTransformed(t) ==
  [state |-> IF t.exc = "" THEN "Transformed" ELSE "Failed",
   output |-> IF t.exc = "" THEN t.rec ELSE Unbound]

AloneCleaned(c) ==
  IF c.exc # "" THEN [state |-> "Failed", output |-> Unbound]
  ELSE AloneTransformed(transform_transaction(c.rec))

AloneValidated(v) ==
  IF v.exc # "" THEN [state |-> "Validated-Failed", output |-> Unbound]
  ELSE AloneCleaned(clean_transaction(v.rec))

Alone(record) == AloneValidated(validate_transaction(record))

\* C5: in a batch, the terminal state and the transformed output of every record
\* the loop has dealt with are those of the record processed alone, whatever the
\* other records of the batch and whatever its position in the batch.
C5_RecordIsolation ==
  \A i \in Processed :
    /\ state[i] = Alone(loaded[i]).state
    /\ output[i] = Alone(loaded[i]).output

\* C5 witness: a record that is transformed after a different record, with other
\* fields, failed validation or was transformed before it
C5_Witness ==
  /\ pc = "done"
  /\ limit = 2
  /\ loaded[1] # loaded[2]
  /\ DOMAIN loaded[1] # DOMAIN loaded[2]
  /\ state[2] = "Transformed"
  /\ output[2] = Alone(loaded[2]).output

\* the properties C6 states of a transformed record
IdIsCanonical(v) ==
  /\ IsStr(v)
  /\ Len(v.s) = 10
  /\ SubSeq(v.s, 1, 3) = <<"T", "X", "N">>
  /\ AllDigits(SubSeq(v.s, 4, 10))

IsWeekdayName(v) == IsStr(v) /\ \E d \in 1..7 : v.s = DayNames[d]

IsNonNegativeNumber(v) == v.t = "float" /\ v.k \in {"fin", "inf"} /\ v.n >= 0

IsCurrencyCode(v) ==
  IsStr(v) /\ v.s \in {<<"I", "D", "R">>, <<"U", "S", "D">>, <<"S", "G", "D">>}

TransformedInvariants(rec) ==
  /\ IdIsCanonical(rec["transaction_id"])
  /\ rec["transaction_date"].t = "date"
  /\ IsWeekdayName(rec["transaction_day"])
  /\ IsNonNegativeNumber(rec["amount"])
  /\ IsCurrencyCode(rec["currency"])

\* C6: every record that reaches Transformed through validate, clean and
\* transform has a transaction_id of TXN and 7 digits without surrounding
\* whitespace, a non-null date and weekday name, a non-null amount >= 0 and a
\* currency that is one of IDR, USD, SGD.
C6_TransformedInvariants ==
  \A i \in Processed : state[i] = "Transformed" => TransformedInvariants(output[i])

\* C6 (the case that fails): the amount "nan" passes validation and the
\* transformed record has an amount that is not a number
C6_NanTransformed ==
  \E i \in Processed :
    /\ state[i] = "Transformed"
    /\ loaded[i]["amount"] = Str(<<"n", "a", "n">>)
    /\ output[i]["amount"] = NaN

---------------------------------------------------------------------------
(* Claims about what the stages do to the dict they are given, and about   *)
(* the fields they derive, under CallSpec                                  *)

\* C11: no stage modifies the record it is given: after validate_transaction,
\* clean_transaction or transform_transaction has returned or raised, the dict
\* that was passed in has the fields and values it had before the call.
C11_InputUnchanged ==
  fn \in {"validate", "clean", "clean_clean", "transform"} => argAfter = arg

\* C11 (the case that fails): validate_transaction returns and the dict that was
\* passed in has gained amount_anomaly
C11_FlagWrittenIntoInput ==
  /\ fn = "validate"
  /\ ret.exc = ""
  /\ "amount_anomaly" \notin DOMAIN arg
  /\ "amount_anomaly" \in DOMAIN argAfter
  /\ Without(argAfter, "amount_anomaly") = arg

\* the currency the transformer's cross-border check is given
CurrencyGiven == Get(arg, "currency", EmptyStr)

\* C12: for every currency c given to the cross-border check, is_crossborder(c)
\* equals (normalize_currency(c) is neither null nor "IDR").
C12_CrossborderIsNormalizedForeign ==
  (fn = "transform" /\ ret.exc = "")
    => ret.rec["is_crossborder"]
         = Bool(normalize_currency(CurrencyGiven) \notin {None, Str(<<"I", "D", "R">>)})

\* C12 (the case that fails): EUR is cross-border for the transformer and null
\* for the cleaner
C12_EurIsCrossborder ==
  /\ fn = "transform"
  /\ ret.exc = ""
  /\ CurrencyGiven = Str(<<"E", "U", "R">>)
  /\ ret.rec["is_crossborder"] = Bool(TRUE)
  /\ normalize_currency(CurrencyGiven) = None

\* a currency text that, trimmed and upper-cased, is non-empty and not "IDR"
ForeignCurrencyText(c) ==
  /\ IsStr(c)
  /\ Upper(Strip(c.s)) # <<>>
  /\ Upper(Strip(c.s)) # <<"I", "D", "R">>

\* C13: transform_transaction sets is_crossborder to true iff the currency,
\* trimmed and upper-cased, is non-null, non-empty and different from "IDR"; a
\* null, empty or whitespace-only currency gives false.
C13_CrossborderFlag ==
  (fn = "transform" /\ ret.exc = "" /\ CurrencyGiven.t \in {"str", "None"})
    => ret.rec["is_crossborder"] = Bool(ForeignCurrencyText(CurrencyGiven))

\* C13 (the case that fails): a whitespace-only currency is cross-border
C13_BlankIsCrossborder ==
  /\ fn = "transform"
  /\ ret.exc = ""
  /\ CurrencyGiven = Str(<<" ", " ">>)
  /\ ret.rec["is_crossborder"] = Bool(TRUE)

\* C14: is_large_transaction is true iff the amount is non-null and strictly
\* greater than 5,000,000; an amount of exactly 5,000,000 and a null amount give
\* false.
C14_LargeFlag ==
  (fn = "transform" /\ ret.exc = "")
    => /\ ret.rec["is_large_transaction"]
            = Bool(ret.rec["amount"] # None /\ FloatGtNat(ret.rec["amount"], 5000000))
       /\ ret.rec["amount"] \in {None, FloatOfNat(NatToDigits(5000000))}
            => ret.rec["is_large_transaction"] = Bool(FALSE)

\* C14 witness: an amount of exactly 5,000,000 is not large
C14_Witness ==
  /\ fn = "transform"
  /\ ret.exc = ""
  /\ Get(arg, "amount", None) = Str(<<"5", "0", "0", "0", "0", "0", "0">>)
  /\ ret.rec["amount"] = FloatOfNat(NatToDigits(5000000))
  /\ ret.rec["is_large_transaction"] = Bool(FALSE)

\* a float that is zero or negative
ZeroOrNegative(a) == a.t = "float" /\ a.k \in {"fin", "inf"} /\ a.n <= 0

\* a finite float that is strictly positive
StrictlyPositive(a) == a.t = "float" /\ a.k = "fin" /\ a.n = 1

\* the natural logarithm of a strictly positive finite float: 0.0 for 1.0, and
\* otherwise the number written ln(a)
NaturalLog(a) ==
  IF a = FloatOfNat(<<"1">>) THEN Fin(0, <<>>, 0)
  ELSE [t |-> "float", k |-> "ln", s |-> a.s, n |-> 1, e |-> a.e]

\* C15: amount_log is null exactly when the amount is null, zero or negative, it
\* is the natural logarithm of a strictly positive amount (0 for the amount 1),
\* and computing it raises nothing.
C15_AmountLog ==
  (/\ fn = "transform"
   /\ convert_amount_to_float(Get(arg, "amount", None)).exc = ""
   /\ convert_risk_score_to_float(Get(arg, "risk_score", None)).exc = "")
    => /\ ret.exc = ""
       /\ ret.rec["amount_log"] = None
            <=> (ret.rec["amount"] = None \/ ZeroOrNegative(ret.rec["amount"]))
       /\ StrictlyPositive(ret.rec["amount"])
            => ret.rec["amount_log"] = NaturalLog(ret.rec["amount"])

\* C15 witness: the amount 1 has the logarithm 0.0
C15_Witness ==
  /\ fn = "transform"
  /\ ret.exc = ""
  /\ Get(arg, "amount", None) = Str(<<"1">>)
  /\ ret.rec["amount"] = FloatOfNat(<<"1">>)
  /\ ret.rec["amount_log"] = Fin(0, <<>>, 0)

\* a currency inside {IDR, USD, SGD}, in any letter case and with surrounding
\* whitespace
CurrencyInSet(c) ==
  IsStr(c) /\ Upper(Strip(c.s)) \in {<<"I", "D", "R">>, <<"U", "S", "D">>, <<"S", "G", "D">>}

\* C16: for a currency outside {IDR, USD, SGD} validate_transaction (on a record
\* whose id, date and amount are valid) raises InvalidCurrencyError, whereas
\* clean_transaction on such a record returns with currency = null; for a
\* currency inside the set clean_transaction yields the trimmed upper-case code.
C16_TwoCurrencyPolicies ==
  /\ (fn = "validate" /\ ~IdInvalid(arg) /\ ~DateInvalid(arg) /\ ~AmountInvalid(arg)
        /\ ~CurrencyInSet(CurrencyGiven))
       => ret.exc = "InvalidCurrencyError"
  /\ (fn = "clean" /\ "currency" \in DOMAIN arg /\ ~CurrencyInSet(arg["currency"]))
       => (ret.exc = "" /\ ret.rec["currency"] = None)
  /\ (fn = "clean" /\ "currency" \in DOMAIN arg /\ CurrencyInSet(arg["currency"])
        /\ ret.exc = "")
       => ret.rec["currency"] = Str(Upper(Strip(arg["currency"].s)))

\* C16 witness: clean_transaction called directly on a record with the currency
\* EUR, which validate_transaction rejects
C16_Witness ==
  /\ fn = "clean"
  /\ CurrencyGiven = Str(<<"E", "U", "R">>)
  /\ validate_transaction(arg).exc = "InvalidCurrencyError"
  /\ ret.exc = ""
  /\ ret.rec["currency"] = None

\* YYYY-MM-DD, with four year digits, of a parsed date; null if it did not parse
CanonicalDay(dt) ==
  IF dt.ok
  THEN Str(ZeroPad(NatStr(dt.y), 4) \o <<"-">> \o ZeroPad(NatStr(dt.m), 2)
             \o <<"-">> \o ZeroPad(NatStr(dt.d), 2))
  ELSE None

\* what C17 says a date value becomes
ExpectedDate(v) ==
  IF IsStr(v) THEN CanonicalDay(ParseEitherFormat(Strip(v.s))) ELSE None

\* C17: clean_transaction turns a transaction_date or value_date that, trimmed,
\* parses as YYYY-MM-DD or else as DD/MM/YYYY into the YYYY-MM-DD string of the
\* same calendar day, and every other value into null.
C17_DatesCanonical ==
  (fn = "clean" /\ ret.exc = "")
    => \A key \in {"transaction_date", "value_date"} \cap DOMAIN arg :
         arg[key].t \in {"str", "None"} => ret.rec[key] = ExpectedDate(arg[key])

\* C17 (the case that fails): the first day of the year 999, where strftime does
\* not pad the year, becomes a text with three year digits
C17_ThreeDigitYear ==
  /\ fn = "clean"
  /\ ret.exc = ""
  /\ ~padYear
  /\ Get(arg, "transaction_date", None) = Str(<<"0", "1", "/", "0", "1", "/", "0", "9", "9", "9">>)
  /\ ret.rec["transaction_date"] = Str(<<"9", "9", "9", "-", "0", "1", "-", "0", "1">>)

\* a merchant_category that is null, empty or whitespace-only
BlankCategory(v) == v = None \/ (IsStr(v) /\ Strip(v.s) = <<>>)

\* C18: after clean_transaction merchant_category is "Unknown" whenever the
\* input's merchant_category is empty, whitespace-only, null or absent, and the
\* trimmed input value otherwise.
C18_MerchantCategory ==
  (fn = "clean" /\ ret.exc = ""
     /\ Get(arg, "merchant_category", None).t \in {"str", "None"})
    => /\ "merchant_category" \in DOMAIN ret.rec
       /\ ret.rec["merchant_category"]
            = (IF BlankCategory(Get(arg, "merchant_category", None))
               THEN Str(<<"U", "n", "k", "n", "o", "w", "n">>)
               ELSE Str(Strip(arg["merchant_category"].s)))

\* C18 (the case that fails): a record without merchant_category is cleaned to a
\* record without merchant_category
C18_AbsentStaysAbsent ==
  /\ fn = "clean"
  /\ ret.exc = ""
  /\ "merchant_category" \notin DOMAIN arg
  /\ "merchant_category" \notin DOMAIN ret.rec

\* the record with a valid direction and a valid account_type instead of its own
WithValidOptionals(rec) ==
  Put(Put(rec, "direction", Str(<<"D", "E", "B", "I", "T">>)),
      "account_type", Str(<<"S", "A", "V", "I", "N", "G", "S">>))

\* a direction or account_type text outside its enumeration
OutsideEnumeration(v, enumeration) ==
  IsStr(v) /\ Strip(v.s) # <<>> /\ Upper(Strip(v.s)) \notin enumeration

\* C19: a direction outside {DEBIT, CREDIT} or an account_type outside {SAVINGS,
\* CURRENT, CREDIT_CARD, LOAN} never makes validate_transaction raise: the
\* outcome is that of the record with valid optional fields, and when the
\* mandatory fields are valid the record is returned with direction and
\* account_type as given.
C19_OptionalFieldsNeverRaise ==
  (fn = "validate" /\ {"direction", "account_type"} \subseteq DOMAIN arg)
    => /\ ret.exc = validate_transaction(WithValidOptionals(arg)).exc
       /\ ret.exc \in MandatoryErrors \cup {""}
       /\ FirstFailingField(arg) = ""
            => /\ ret.exc = ""
               /\ ret.rec["direction"] = arg["direction"]
               /\ ret.rec["account_type"] = arg["account_type"]
               /\ Without(ret.rec, "amount_anomaly") = arg

\* C19 witness: valid mandatory fields with a direction and an account_type that
\* are both outside their enumerations
C19_Witness ==
  /\ fn = "validate"
  /\ {"direction", "account_type"} \subseteq DOMAIN arg
  /\ OutsideEnumeration(arg["direction"], {<<"D", "E", "B", "I", "T">>, <<"C", "R", "E", "D", "I", "T">>})
  /\ OutsideEnumeration(arg["account_type"],
                        {<<"S", "A", "V", "I", "N", "G", "S">>, <<"C", "U", "R", "R", "E", "N", "T">>,
                         <<"C", "R", "E", "D", "I", "T", "_", "C", "A", "R", "D">>, <<"L", "O", "A", "N">>})
  /\ ret.exc = ""
  /\ ret.rec["direction"] = arg["direction"]
  /\ ret.rec["account_type"] = arg["account_type"]

\* the fields clean_transaction has a rule for
RuledFields ==
  {"transaction_id", "customer_id", "account_id", "channel", "region", "txn_type",
   "transaction_date", "value_date", "currency", "amount", "risk_score",
   "merchant_category", "account_type", "direction"}

\* C20: clean_transaction copies every field without a rule of its own through,
\* with surrounding whitespace removed from a text value and any other value
\* unchanged, and the cleaned record has the field names of the input record.
C20_OtherFieldsCopied ==
  (fn = "clean" /\ ret.exc = "")
    => /\ DOMAIN ret.rec = DOMAIN arg
       /\ \A key \in (DOMAIN arg) \ RuledFields :
            ret.rec[key] = (IF IsStr(arg[key]) THEN Str(Strip(arg[key].s)) ELSE arg[key])

\* C20 witness: is_fraud_suspected = "  x " is copied through as "x"
C20_Witness ==
  /\ fn = "clean"
  /\ ret.exc = ""
  /\ "is_fraud_suspected" \in DOMAIN arg
  /\ arg["is_fraud_suspected"] = Str(<<" ", " ", "x", " ">>)
  /\ ret.rec["is_fraud_suspected"] = Str(<<"x">>)
  /\ DOMAIN ret.rec = DOMAIN arg

---------------------------------------------------------------------------
(* Claims about the loop's counters and the flags of a record that went    *)
(* through validate, clean and transform, checked under Spec               *)

\* the records counted so far as one kind
Counted(kinds) == Cardinality({i \in 1..Len(loaded) : state[i] \in kinds})

C26_AnomalyImpliesLarge ==
  \A i \in 1..Len(loaded) :
    state[i] = "Transformed"
      => /\ {"amount_anomaly", "is_large_transaction"} \subseteq DOMAIN output[i]
         /\ output[i]["amount_anomaly"] = Bool(TRUE)
              => output[i]["is_large_transaction"] = Bool(TRUE)
         /\ output[i]["is_large_transaction"] = Bool(FALSE)
              => output[i]["amount_anomaly"] = Bool(FALSE)

\* C26 witness: a batch with a transformed record of 15,000,000.00 (both flags
\* true) and one of 5,000.50 (both flags false)
C26_Witness ==
  /\ pc = "done"
  /\ \E i, j \in 1..limit :
       /\ state[i] = "Transformed" /\ state[j] = "Transformed"
       /\ output[i]["amount_anomaly"] = Bool(TRUE)
       /\ output[i]["is_large_transaction"] = Bool(TRUE)
       /\ output[j]["amount_anomaly"] = Bool(FALSE)
       /\ output[j]["is_large_transaction"] = Bool(FALSE)

\* C27: the amount_anomaly that validate attached is in the cleaned record and
\* in the transformed record with the same value.
C27_AnomalyCarried ==
  /\ pc = "transform" => Get(cleaned, "amount_anomaly", None) = validated["amount_anomaly"]
  /\ pc = "log" => Get(transformed, "amount_anomaly", None) = validated["amount_anomaly"]
  /\ \A i \in 1..Len(loaded) :
       state[i] = "Transformed"
         => /\ "amount_anomaly" \in DOMAIN output[i]
            /\ output[i]["amount_anomaly"] = transactions[i]["amount_anomaly"]
            /\ output[i]["amount_anomaly"] = validate_transaction(loaded[i]).rec["amount_anomaly"]

\* C27 witness: a transformed record whose flag validate set to true and one
\* whose flag validate set to false
C27_Witness ==
  \E i, j \in 1..Len(loaded) :
    /\ state[i] = "Transformed" /\ state[j] = "Transformed"
    /\ transactions[i]["amount_anomaly"] = Bool(TRUE)
    /\ output[i]["amount_anomaly"] = Bool(TRUE)
    /\ transactions[j]["amount_anomaly"] = Bool(FALSE)
    /\ output[j]["amount_anomaly"] = Bool(FALSE)

\* C28: on every transformed record the cleaned currency is IDR, USD or SGD and
\* is_crossborder is true exactly when it is USD or SGD; the currency of a
\* record handed to the transformer is never None.
C28_CrossborderOnPipeline ==
  /\ pc = "transform" => Get(cleaned, "currency", None) # None
  /\ \A i \in 1..Len(loaded) :
       state[i] = "Transformed"
         => /\ output[i]["currency"] \in {Str(<<"I", "D", "R">>), Str(<<"U", "S", "D">>),
                                          Str(<<"S", "G", "D">>)}
            /\ output[i]["is_crossborder"]
                 = Bool(output[i]["currency"] \in {Str(<<"U", "S", "D">>), Str(<<"S", "G", "D">>)})

\* C28 witness: a batch with a transformed USD record (cross-border) and a
\* transformed IDR record (not cross-border)
C28_Witness ==
  \E i, j \in 1..Len(loaded) :
    /\ state[i] = "Transformed" /\ state[j] = "Transformed"
    /\ output[i]["currency"] = Str(<<"U", "S", "D">>)
    /\ output[i]["is_crossborder"] = Bool(TRUE)
    /\ output[j]["currency"] = Str(<<"I", "D", "R">>)
    /\ output[j]["is_crossborder"] = Bool(FALSE)

\* C29: process_banking_transactions returns normally, with no exception
\* escaping, whatever the loaded rows and max_records are.
C29_ReturnsNormally ==
  /\ outcome \in {"running", "returned"}
  /\ pc = "done" => outcome = "returned"

\* C29: the call that has no record to process (no data rows, or
\* max_records = 0) ends in the ZeroDivisionError of the success rate
C29_NothingProcessed ==
  /\ pc = "done"
  /\ limit = 0
  /\ successful + failed = 0
  /\ outcome = "ZeroDivisionError"

---------------------------------------------------------------------------
(* Claims about load_csv, checked under IoSpec                             *)

LoaderErrors ==
  {"CSVFileNotFoundError", "CSVMissingMandatoryFieldError", "CSVEmptyRowError",
   "CSVColumnMismatchError"}

\* the header has every mandatory column
HeaderComplete ==
  /\ file.exists
  /\ mandatory_columns \subseteq {file.fieldnames[i] : i \in 1..Len(file.fieldnames)}

\* a data row with no field that holds anything
AllEmpty(line) == \A i \in 1..Len(line) : line[i] = <<>>

\* a data row that holds something and has as many fields as the header
WellFormed(line) == ~AllEmpty(line) /\ Len(line) = Len(file.fieldnames)

\* C21: load_csv returns one mapping per data row of the file, in file order,
\* or raises one of its typed errors and returns nothing; a header that lacks a
\* mandatory column raises CSVMissingMandatoryFieldError before any data row is
\* read; and the first all-empty data row, when every row before it is well
\* formed, raises CSVEmptyRowError.
C21_AllOrNothing ==
  lpc = "done"
    => /\ loadRet.exc \in LoaderErrors \cup {""}
       /\ loadRet.exc # "" => loadRet.rows = <<>>
       /\ loadRet.exc = ""
            => loadRet.rows = [k \in 1..Len(file.lines) |-> DictRow(file.fieldnames, file.lines[k])]
       /\ (file.exists /\ ~HeaderComplete)
            => (loadRet.exc = "CSVMissingMandatoryFieldError" /\ pos = 1 /\ rows = <<>>)
       /\ HeaderComplete
            => \A k \in 1..Len(file.lines) :
                 (AllEmpty(file.lines[k]) /\ \A j \in 1..(k - 1) : WellFormed(file.lines[j]))
                   => (loadRet.exc = "CSVEmptyRowError" /\ pos = k)

\* C21: a file whose first row that is not well formed is all-empty, and load_csv
\* has ended without CSVEmptyRowError: the row is a blank line, which the
\* reader passes over, or it has more fields than the header
C21_EmptyRowNotReported ==
  /\ lpc = "done"
  /\ HeaderComplete
  /\ loadRet.exc # "CSVEmptyRowError"
  /\ \E k \in 1..Len(file.lines) :
       /\ AllEmpty(file.lines[k])
       /\ \A j \in 1..(k - 1) : WellFormed(file.lines[j])

\* C22: load_csv raises CSVColumnMismatchError at the first data row that holds
\* something and whose number of fields differs from the header's, more or
\* fewer, when every row before it is well formed; and it returns the rows of a
\* file whose rows are all well formed.
C22_ColumnCountChecked ==
  (lpc = "done" /\ HeaderComplete)
    => /\ \A k \in 1..Len(file.lines) :
            (/\ ~AllEmpty(file.lines[k])
             /\ Len(file.lines[k]) # Len(file.fieldnames)
             /\ \A j \in 1..(k - 1) : WellFormed(file.lines[j]))
              => (loadRet.exc = "CSVColumnMismatchError" /\ pos = k)
       /\ (\A k \in 1..Len(file.lines) : WellFormed(file.lines[k]))
            => (loadRet.exc = "" /\ Len(loadRet.rows) = Len(file.lines))

\* C22: load_csv has returned the rows of a file that has a row with fewer
\* fields than the header; the row is among them, with None for the columns it
\* has no field for
C22_ShortRowAccepted ==
  /\ lpc = "done"
  /\ HeaderComplete
  /\ loadRet.exc = ""
  /\ \E k \in 1..Len(file.lines) :
       /\ ~AllEmpty(file.lines[k])
       /\ Len(file.lines[k]) < Len(file.fieldnames)
       /\ \E r \in 1..Len(loadRet.rows) :
            /\ loadRet.rows[r] = DictRow(file.fieldnames, file.lines[k])
            /\ loadRet.rows[r]["currency"] = None

---------------------------------------------------------------------------
(* Claims about fetch_multiple_quotes and retry_on_failure, checked under  *)
(* IoSpec                                                                  *)

\* the tasks whose fetch returned a quote, in the order of the symbols
Succeeded ==
  LET Returned(i) == tstate[i] = "returned"
  IN  SelectSeq([i \in 1..Len(symbols) |-> i], Returned)

\* C23: fetch_multiple_quotes returns exactly the quotes of the symbols whose
\* fetch succeeded, in the order of the symbols whatever the order the fetches
\* end in; a fetch that raised is left out, and the list is as long as the number
\* of fetches that succeeded.
C23_GatherInOrder ==
  /\ gpc \in {"idle", "gathering", "returned"}
  /\ gpc = "returned"
       => /\ \A i \in 1..Len(symbols) : tstate[i] \in {"returned", "raised"}
          /\ Len(quotes) = Cardinality({i \in 1..Len(symbols) : tstate[i] = "returned"})
          /\ quotes = [k \in 1..Len(Succeeded) |->
                         [t |-> "dict", symbol |-> symbols[Succeeded[k]]]]

\* C23 witness: two different symbols whose fetches both succeeded, the second
\* ending first, and the quotes returned in the order of the symbols
C23_Witness ==
  /\ gpc = "returned"
  /\ Len(symbols) = 2
  /\ symbols[1] # symbols[2]
  /\ finished = <<2, 1>>
  /\ quotes = <<[t |-> "dict", symbol |-> symbols[1]], [t |-> "dict", symbol |-> symbols[2]]>>

\* C24: the wrapper calls the wrapped coroutine at most MAX_RETRIES times; it
\* returns the result of the first attempt that succeeds and makes no attempt
\* after it; and when every attempt has failed, the invalid symbol's ValueError
\* included, it raises the exception of the last attempt.
C24_RetryBound ==
  \A i \in 1..Len(symbols) :
    /\ Len(calls[i]) <= MAX_RETRIES
    /\ \A k \in 1..(Len(calls[i]) - 1) : calls[i][k] # "ok"
    /\ tstate[i] = "returned"
         <=> (calls[i] # <<>> /\ calls[i][Len(calls[i])] = "ok")
    /\ tstate[i] = "returned" => result[i] = [t |-> "dict", symbol |-> symbols[i]]
    /\ tstate[i] = "raised"
         <=> (Len(calls[i]) = MAX_RETRIES /\ calls[i][MAX_RETRIES] # "ok")
    /\ tstate[i] = "raised" => result[i].t = calls[i][MAX_RETRIES]
    /\ tstate[i] \in {"ready", "sleeping"} => result[i].t = "pending"

\* C24 witness: a task that raised ClientError after a timeout, a timeout and a
\* client error, and a task that returned on its second attempt
C24_Witness ==
  \E i, j \in 1..Len(symbols) :
    /\ tstate[i] = "raised"
    /\ calls[i] = <<"TimeoutError", "TimeoutError", "ClientError">>
    /\ result[i].t = "ClientError"
    /\ tstate[j] = "returned"
    /\ calls[j] = <<"ClientError", "ok">>

\* C30: the wrapper sleeps once after each failed attempt that is not the last
\* one and at no other time: a call that ran out of attempts has slept
\* MAX_RETRIES - 1 times, a call that succeeded on attempt k has slept k - 1
\* times.
C30_SleepsBetweenAttempts ==
  \A i \in 1..Len(symbols) :
    /\ tstate[i] = "raised" => slept[i] = MAX_RETRIES - 1
    /\ tstate[i] = "returned" => slept[i] = Len(calls[i]) - 1
    /\ tstate[i] \in {"ready", "sleeping"} => slept[i] = Len(calls[i])
    /\ tstate[i] = "sleeping"
         => (calls[i] # <<>> /\ calls[i][Len(calls[i])] # "ok" /\ Len(calls[i]) < MAX_RETRIES)

\* C30 witness: a task that ran out of attempts after two sleeps, and a task
\* that succeeded on its third attempt after two sleeps
C30_Witness ==
  \E i, j \in 1..Len(symbols) :
    /\ tstate[i] = "raised" /\ Len(calls[i]) = MAX_RETRIES /\ slept[i] = 2
    /\ tstate[j] = "returned" /\ Len(calls[j]) = 3 /\ slept[j] = 2

====
